---------------------------- MODULE Spec2Model ----------------------------
(***************************************************************************)
(* A model of the QR-code generator of src/QRrer (main.py and main2.py):   *)
(* the payload encoders, the crypto codec of ImageEncoder, the image        *)
(* recompression loop and the interactive menu loop of main2.py.            *)
(*                                                                          *)
(* Python strings are sequences of Unicode code points, bytes objects are   *)
(* sequences of numbers in 0..255.                                          *)
(***************************************************************************)
EXTENDS Integers, Sequences, FiniteSets, TLC

VARIABLES
    c_pc,        \* codec run: "start", "encrypted", "tampered", "decrypted"
    c_text,      \* codec run: the plaintext handed to encrypt_data
    c_password,  \* codec run: the password handed to encrypt_data
    c_iv,        \* codec run: the IV get_random_bytes(16) returned
    c_encoded,   \* codec run: the string handed to decrypt_data
    c_dpassword, \* codec run: the password handed to decrypt_data
    c_result,    \* codec run: what decrypt_data returned or raised
    i_pc,        \* image_to_base64: "open", "save", "test", "returned", "raised"
    i_img,       \* image_to_base64: img, the opened (then the flattened) image
    i_max,       \* image_to_base64: max_size_kb
    i_quality,   \* image_to_base64: quality
    i_bytes,     \* image_to_base64: len(buffer.getvalue()) of the last save
    i_size_kb,   \* image_to_base64: size_kb
    i_saves,     \* image_to_base64: the qualities img.save was called with
    m_pc,        \* main_menu: where the loop stands
    m_choice,    \* main_menu: the data kind chosen
    m_typed,     \* the lines typed at each prompt of the running handler
    m_fields,    \* the values the prompts of the running handler returned
    m_data,      \* main_menu: data, the payload or None
    m_filename,  \* main_menu: filename
    m_settings,  \* main_menu: settings
    m_success,   \* main_menu: success
    m_log,       \* what the iteration did to the world so far, in order
    m_error,     \* the exception that left main_menu, "" while none did
    m_demo       \* decrypt_menu: what its demonstration showed

codecVars == <<c_pc, c_text, c_password, c_iv, c_encoded, c_dpassword, c_result>>
imageVars == <<i_pc, i_img, i_max, i_quality, i_bytes, i_size_kb, i_saves>>
menuVars == <<m_pc, m_choice, m_typed, m_fields, m_data, m_filename, m_settings,
              m_success, m_log, m_error, m_demo>>
vars == <<codecVars, imageVars, menuVars>>

-----------------------------------------------------------------------------
(* Text literals *)

\* The printable ASCII characters: code points 32..95 and 97..126, in order.
AsciiLow == " !\"#$%&'()*+,-./0123456789:;<=>?@ABCDEFGHIJKLMNOPQRSTUVWXYZ[\\]^_"
AsciiHigh == "abcdefghijklmnopqrstuvwxyz{|}~"

\* The code point of a one-character literal.
Ord(c) ==
    IF \E i \in 1..Len(AsciiLow) : SubSeq(AsciiLow, i, i) = c
    THEN 31 + CHOOSE i \in 1..Len(AsciiLow) : SubSeq(AsciiLow, i, i) = c
    ELSE 96 + CHOOSE i \in 1..Len(AsciiHigh) : SubSeq(AsciiHigh, i, i) = c

\* A literal of the source as a sequence of code points.
S(lit) == [i \in 1..Len(lit) |-> Ord(SubSeq(lit, i, i))]

\* n copies of the sequence s (Python's s * n).
Rep(s, n) == [i \in 1..(n * Len(s)) |-> s[((i - 1) % Len(s)) + 1]]

\* The concatenation of the sequences ss[lo], ..., ss[hi], by halves.
RECURSIVE ConcatRange(_, _, _)
ConcatRange(ss, lo, hi) ==
    IF lo > hi THEN <<>>
    ELSE IF lo = hi THEN ss[lo]
    ELSE LET mid == (lo + hi) \div 2
         IN  ConcatRange(ss, lo, mid) \o ConcatRange(ss, mid + 1, hi)

\* The concatenation of a sequence of sequences.
Concat(ss) == ConcatRange(ss, 1, Len(ss))


\* Python's sep.join(parts).
RECURSIVE Join(_, _)
Join(sep, parts) ==
    IF parts = <<>> THEN <<>>
    ELSE IF Len(parts) = 1 THEN Head(parts)
    ELSE Head(parts) \o sep \o Join(sep, Tail(parts))

\* Python's s[:n] and s[n:], which never fail on a short s.
Take(s, n) == SubSeq(s, 1, IF n < Len(s) THEN n ELSE Len(s))
Drop(s, n) == SubSeq(s, (IF n < Len(s) THEN n ELSE Len(s)) + 1, Len(s))

\* What a call returns (ok, with its value) or raises (not ok, with the error).
Ok(v) == [ok |-> TRUE, value |-> v, error |-> ""]
Raise(e) == [ok |-> FALSE, value |-> <<>>, error |-> e]

-----------------------------------------------------------------------------
(* str.encode() and bytes.decode('utf-8') *)

IsSurrogate(cp) == cp >= 55296 /\ cp <= 57343

\* The UTF-8 bytes of one code point.
Utf8Char(cp) ==
    IF cp < 128 THEN <<cp>>
    ELSE IF cp < 2048 THEN <<192 + (cp \div 64), 128 + (cp % 64)>>
    ELSE IF cp < 65536 THEN
        <<224 + (cp \div 4096), 128 + ((cp \div 64) % 64), 128 + (cp % 64)>>
    ELSE <<240 + (cp \div 262144), 128 + ((cp \div 4096) % 64),
           128 + ((cp \div 64) % 64), 128 + (cp % 64)>>

\* str.encode(): the strict UTF-8 codec refuses a lone surrogate.
Utf8Encodable(text) == \A i \in 1..Len(text) : ~IsSurrogate(text[i])

Utf8Bytes(text) == Concat([i \in 1..Len(text) |-> Utf8Char(text[i])])

str_encode(text) ==
    IF Utf8Encodable(text) THEN Ok(Utf8Bytes(text)) ELSE Raise("UnicodeEncodeError")

IsCont(b) == b >= 128 /\ b <= 191

\* The length of the UTF-8 sequence a lead byte announces, 0 for no lead byte.
Utf8Need(b) ==
    IF b < 128 THEN 1
    ELSE IF b >= 194 /\ b <= 223 THEN 2
    ELSE IF b >= 224 /\ b <= 239 THEN 3
    ELSE IF b >= 240 /\ b <= 244 THEN 4
    ELSE 0

\* The code point of the well-formed sequence starting at bytes[i], or -1.
Utf8At(bytes, i) ==
    LET b == bytes[i]
        n == Utf8Need(b)
    IN  IF n = 0 \/ i + n - 1 > Len(bytes) THEN -1
        ELSE IF n = 1 THEN b
        ELSE IF \E k \in 1..(n - 1) : ~IsCont(bytes[i + k]) THEN -1
        ELSE IF n = 2 THEN (b - 192) * 64 + (bytes[i + 1] - 128)
        ELSE IF n = 3 THEN
            LET cp == (b - 224) * 4096 + (bytes[i + 1] - 128) * 64 + (bytes[i + 2] - 128)
            IN  IF cp < 2048 \/ IsSurrogate(cp) THEN -1 ELSE cp
        ELSE
            LET cp == (b - 240) * 262144 + (bytes[i + 1] - 128) * 4096
                      + (bytes[i + 2] - 128) * 64 + (bytes[i + 3] - 128)
            IN  IF cp < 65536 \/ cp > 1114111 THEN -1 ELSE cp

\* A continuation byte is covered when the nearest byte before it that is no
\* continuation byte is a lead byte whose sequence reaches it.
Utf8Covered(bytes, i) ==
    \E k \in 1..3 :
        /\ i - k >= 1
        /\ ~IsCont(bytes[i - k])
        /\ \A j \in 1..(k - 1) : IsCont(bytes[i - j])
        /\ Utf8Need(bytes[i - k]) > k

\* The strict decoder accepts the bytes when every byte either starts a
\* well-formed sequence or continues one.
Utf8Valid(bytes) ==
    \A i \in 1..Len(bytes) :
        IF IsCont(bytes[i]) THEN Utf8Covered(bytes, i) ELSE Utf8At(bytes, i) # -1

\* The decoded text: the code point of every sequence, in order.
Utf8Text(bytes) ==
    LET starts == SelectSeq([i \in 1..Len(bytes) |-> i], LAMBDA i : ~IsCont(bytes[i]))
    IN  [k \in 1..Len(starts) |-> Utf8At(bytes, starts[k])]

bytes_decode(bytes) ==
    IF Utf8Valid(bytes) THEN Ok(Utf8Text(bytes)) ELSE Raise("UnicodeDecodeError")

-----------------------------------------------------------------------------
(* base64.b64encode and base64.b64decode *)

B64Alphabet == S("ABCDEFGHIJKLMNOPQRSTUVWXYZabcdefghijklmnopqrstuvwxyz0123456789+/")
B64Pad == Ord("=")

B64Char(v) == B64Alphabet[v + 1]

\* The characters of one group of one, two or three bytes.
B64Group(g) ==
    IF Len(g) = 3 THEN
        <<B64Char(g[1] \div 4), B64Char((g[1] % 4) * 16 + g[2] \div 16),
          B64Char((g[2] % 16) * 4 + g[3] \div 64), B64Char(g[3] % 64)>>
    ELSE IF Len(g) = 2 THEN
        <<B64Char(g[1] \div 4), B64Char((g[1] % 4) * 16 + g[2] \div 16),
          B64Char((g[2] % 16) * 4), B64Pad>>
    ELSE <<B64Char(g[1] \div 4), B64Char((g[1] % 4) * 16), B64Pad, B64Pad>>

\* b64encode that leaves out the "=" of the last group.
b64encode_Unpadded(bytes) ==
    SelectSeq(Concat([g \in 1..((Len(bytes) + 2) \div 3) |->
                         B64Group(SubSeq(bytes, 3 * g - 2,
                                         IF 3 * g < Len(bytes) THEN 3 * g ELSE Len(bytes)))]),
              LAMBDA c : c # B64Pad)

\* Every group of three bytes, and the one or two bytes left, in order.
b64encode(bytes) ==
    Concat([g \in 1..((Len(bytes) + 2) \div 3) |->
               B64Group(SubSeq(bytes, 3 * g - 2,
                               IF 3 * g < Len(bytes) THEN 3 * g ELSE Len(bytes)))])

\* The 6-bit value of a character of the alphabet, 64 for any other character.
B64Value(c) ==
    IF \E v \in 0..63 : B64Alphabet[v + 1] = c
    THEN CHOOSE v \in 0..63 : B64Alphabet[v + 1] = c
    ELSE 64

IsB64Data(c) == B64Value(c) # 64

\* binascii.a2b_base64 in its default, non-strict mode. A character outside
\* the alphabet is skipped. At a padding character the position in the quad
\* is the number of data characters before it, modulo 4; with q >= 2 the
\* padding characters since the last data character are counted, and the
\* one that completes the quad (q + pads >= 4) ends the input.
B64DataBefore(text, i) == Cardinality({j \in 1..(i - 1) : IsB64Data(text[j])})

B64PadsSince(text, i) ==
    Cardinality({j \in 1..i : /\ text[j] = B64Pad
                               /\ \A m \in j..i : ~IsB64Data(text[m])})

B64Stops(text, i) ==
    /\ text[i] = B64Pad
    /\ B64DataBefore(text, i) % 4 >= 2
    /\ (B64DataBefore(text, i) % 4) + B64PadsSince(text, i) >= 4

\* The characters read: up to the padding that ends the input, or all.
B64Read(text) ==
    IF \E i \in 1..Len(text) : B64Stops(text, i)
    THEN Take(text, CHOOSE i \in 1..Len(text) :
                        B64Stops(text, i) /\ \A j \in 1..(i - 1) : ~B64Stops(text, j))
    ELSE text

\* The 6-bit values of the data characters read.
B64Values(text) ==
    LET data == SelectSeq(B64Read(text), IsB64Data)
    IN  [k \in 1..Len(data) |-> B64Value(data[k])]

\* Byte number k of the values v: three bytes for every four values.
B64Byte(v, k) ==
    LET g == 4 * ((k - 1) \div 3)
        r == (k - 1) % 3
    IN  IF r = 0 THEN v[g + 1] * 4 + v[g + 2] \div 16
        ELSE IF r = 1 THEN (v[g + 2] % 16) * 16 + v[g + 3] \div 4
        ELSE (v[g + 3] % 4) * 64 + v[g + 4]

\* The bytes, or <<-1>>: input that ends inside a quad, with no padding that
\* completes it, is an error.
B64Scan(text) ==
    LET v == B64Values(text)
        q == Len(v) % 4
        complete == \E i \in 1..Len(text) : B64Stops(text, i)
    IN  IF q # 0 /\ ~complete THEN <<-1>>
        ELSE [k \in 1..(3 * (Len(v) \div 4) + (IF q = 0 THEN 0 ELSE q - 1)) |->
                 B64Byte(v, k)]

\* base64.b64decode(s) of a str: the str must be ASCII.
b64decode(text) ==
    IF \E i \in 1..Len(text) : text[i] > 127 THEN Raise("ValueError")
    ELSE LET bytes == B64Scan(text)
         IN  IF bytes = <<-1>> THEN Raise("binascii.Error") ELSE Ok(bytes)

-----------------------------------------------------------------------------
(* hashlib.sha256, AES in CBC mode, Crypto.Util.Padding *)

BlockSize == 16
KeySize == 32

RECURSIVE Xor(_, _)
Xor(a, b) ==
    IF a = 0 THEN b
    ELSE IF b = 0 THEN a
    ELSE ((a + b) % 2) + 2 * Xor(a \div 2, b \div 2)

XorBlock(x, y) == [i \in 1..BlockSize |-> Xor(x[i], y[i])]

\* hashlib.sha256(bytes).digest(): a deterministic 32-byte digest. The digest
\* stands for SHA-256; it mixes every byte with its position and the length.
RECURSIVE DigestSum(_, _, _)
DigestSum(bytes, j, i) ==
    IF j > Len(bytes) THEN 0
    ELSE ((bytes[j] + 1) * (i + 2 * j)) + DigestSum(bytes, j + 1, i)

sha256(bytes) ==
    [i \in 1..KeySize |-> (17 * i + 7 * Len(bytes) + DigestSum(bytes, 1, i)) % 256]

\* One block of the cipher under a key: a keyed permutation of the 16-byte
\* blocks, standing for AES-256. Byte i of the output is byte Rot(i) of the
\* input, xored with key[i] and shifted by key[i + 16].
Rot(i) == (i % BlockSize) + 1
UnRot(j) == ((j + BlockSize - 2) % BlockSize) + 1

AesEncryptBlock(key, block) ==
    [i \in 1..BlockSize |-> (Xor(block[Rot(i)], key[i]) + key[i + BlockSize]) % 256]

AesDecryptBlock(key, block) ==
    [j \in 1..BlockSize |->
        Xor((block[UnRot(j)] + 256 - key[UnRot(j) + BlockSize]) % 256, key[UnRot(j)])]

\* CBC over whole blocks: each plaintext block is xored with the previous
\* ciphertext block (the IV for the first) before it is encrypted.
RECURSIVE CbcEncryptBlocks(_, _, _)
CbcEncryptBlocks(key, prev, data) ==
    IF data = <<>> THEN <<>>
    ELSE LET c == AesEncryptBlock(key, XorBlock(SubSeq(data, 1, BlockSize), prev))
         IN  c \o CbcEncryptBlocks(key, c, SubSeq(data, BlockSize + 1, Len(data)))

RECURSIVE CbcDecryptBlocks(_, _, _)
CbcDecryptBlocks(key, prev, data) ==
    IF data = <<>> THEN <<>>
    ELSE LET c == SubSeq(data, 1, BlockSize)
         IN  XorBlock(AesDecryptBlock(key, c), prev)
             \o CbcDecryptBlocks(key, c, SubSeq(data, BlockSize + 1, Len(data)))

\* AES.new(key, AES.MODE_CBC, iv): the cipher object, or ValueError for a key
\* or an IV of the wrong length.
AES_new(key, iv) ==
    IF Len(key) \notin {16, 24, 32} THEN Raise("ValueError: Incorrect AES key length")
    ELSE IF Len(iv) # BlockSize THEN Raise("ValueError: Incorrect IV length")
    ELSE Ok([key |-> key, iv |-> iv])

\* cipher.encrypt(data) and cipher.decrypt(data) in CBC mode.
cipher_encrypt(cipher, data) ==
    IF Len(data) % BlockSize # 0 THEN Raise("ValueError: Data must be padded")
    ELSE Ok(CbcEncryptBlocks(cipher.key, cipher.iv, data))

cipher_decrypt(cipher, data) ==
    IF Len(data) % BlockSize # 0 THEN Raise("ValueError: Data must be padded")
    ELSE Ok(CbcDecryptBlocks(cipher.key, cipher.iv, data))

\* pad with a slip: data that already fills whole blocks gets no padding.
pad_NoFullBlock(data, block_size) ==
    IF Len(data) % block_size = 0 THEN data
    ELSE data \o Rep(<<block_size - (Len(data) % block_size)>>,
                     block_size - (Len(data) % block_size))

\* Crypto.Util.Padding.pad(data, block_size), style pkcs7.
pad(data, block_size) ==
    LET padding_len == block_size - (Len(data) % block_size)
    IN  data \o Rep(<<padding_len>>, padding_len)

\* unpad with a slip: the last byte is trusted, the padding bytes are not compared.
unpad_Unchecked(padded_data, block_size) ==
    IF Len(padded_data) = 0 \/ Len(padded_data) % block_size # 0
    THEN Raise("ValueError: Input data is not padded")
    ELSE IF padded_data[Len(padded_data)] < 1 \/ padded_data[Len(padded_data)] > block_size
    THEN Raise("ValueError: Padding is incorrect.")
    ELSE Ok(SubSeq(padded_data, 1, Len(padded_data) - padded_data[Len(padded_data)]))

\* Crypto.Util.Padding.unpad(padded_data, block_size), style pkcs7.
unpad(padded_data, block_size) ==
    LET pdata_len == Len(padded_data)
    IN  IF pdata_len = 0 THEN Raise("ValueError: Zero-length input cannot be unpadded")
        ELSE IF pdata_len % block_size # 0 THEN Raise("ValueError: Input data is not padded")
        ELSE LET padding_len == padded_data[pdata_len]
             IN  IF padding_len < 1 \/ padding_len > block_size
                 THEN Raise("ValueError: Padding is incorrect.")
                 ELSE IF \E i \in (pdata_len - padding_len + 1)..pdata_len :
                            padded_data[i] # padding_len
                 THEN Raise("ValueError: PKCS#7 padding is incorrect.")
                 ELSE Ok(SubSeq(padded_data, 1, pdata_len - padding_len))

-----------------------------------------------------------------------------
(* ImageEncoder.encrypt_data and ImageEncoder.decrypt_data *)

\* encrypt_data with a slip: the IV is not put in front of the ciphertext.
encrypt_data_NoIv(data, password, iv) ==
    IF ~Utf8Encodable(password) \/ ~Utf8Encodable(data) \/ Len(iv) # BlockSize
    THEN Raise("Exception: encrypt")
    ELSE Ok(b64encode(CbcEncryptBlocks(sha256(Utf8Bytes(password)), iv,
                                       pad(Utf8Bytes(data), BlockSize))))

\* get_random_bytes(16) is the argument iv: the caller draws it.
encrypt_data(data, password, iv) ==
    LET pw == str_encode(password)
        plain == str_encode(data)
    IN  IF ~pw.ok THEN Raise("Exception: encrypt")
        ELSE LET key == sha256(pw.value)
                 cipher == AES_new(key, iv)
             IN  IF ~cipher.ok \/ ~plain.ok THEN Raise("Exception: encrypt")
                 ELSE LET encrypted_data ==
                              cipher_encrypt(cipher.value, pad(plain.value, BlockSize))
                      IN  IF ~encrypted_data.ok THEN Raise("Exception: encrypt")
                          ELSE Ok(b64encode(iv \o encrypted_data.value))

\* Lines 144-145: the first 16 bytes are the IV, the rest is the ciphertext.
DecryptSplit(encrypted_bytes) ==
    [iv |-> Take(encrypted_bytes, 16), ciphertext |-> Drop(encrypted_bytes, 16)]

decrypt_data(encrypted_data, password) ==
    LET decoded == b64decode(encrypted_data)
        pw == str_encode(password)
    IN  IF ~decoded.ok \/ ~pw.ok THEN Raise("Exception: decrypt")
        ELSE LET parts == DecryptSplit(decoded.value)
                 key == sha256(pw.value)
                 cipher == AES_new(key, parts.iv)
             IN  IF ~cipher.ok THEN Raise("Exception: decrypt")
                 ELSE LET plain == cipher_decrypt(cipher.value, parts.ciphertext)
                      IN  IF ~plain.ok THEN Raise("Exception: decrypt")
                          ELSE LET decrypted_data == unpad(plain.value, BlockSize)
                               IN  IF ~decrypted_data.ok THEN Raise("Exception: decrypt")
                                   ELSE LET text == bytes_decode(decrypted_data.value)
                                        IN  IF ~text.ok THEN Raise("Exception: decrypt")
                                            ELSE Ok(text.value)

-----------------------------------------------------------------------------
(* input(), str.strip(), get_input, get_user_choice, int() *)

\* The characters str.strip() removes.
Whitespace ==
    {9, 10, 11, 12, 13, 28, 29, 30, 31, 32, 133, 160, 5760, 8232, 8233, 8239, 8287, 12288}
    \cup (8192..8202)

\* str.strip(): the text from its first to its last character that is no whitespace.
Strip(text) ==
    LET keep == {i \in 1..Len(text) : text[i] \notin Whitespace}
    IN  IF keep = {} THEN <<>>
        ELSE SubSeq(text, CHOOSE i \in keep : \A j \in keep : i <= j,
                          CHOOSE i \in keep : \A j \in keep : i >= j)

\* What one pass of get_input's loop reads: getpass() gives the line as typed,
\* input().strip() the stripped line; with a default the line is always
\* read by input().strip().
InputRead(line, default, password) ==
    IF default # <<>> THEN Strip(line)
    ELSE IF password THEN line
    ELSE Strip(line)

\* Whether the pass that read this line returns (lines 219-231): an empty
\* reading returns the default when there is one; otherwise a reading is
\* returned when the field is not required or the reading is not empty.
InputAccepts(line, required, default, password) ==
    \/ default # <<>> /\ InputRead(line, default, password) = <<>>
    \/ ~required
    \/ InputRead(line, default, password) # <<>>

\* get_input with a slip: a required field takes whatever was typed first.
get_input_NoLoop(lines, required, default, password) ==
    [returns |-> Len(lines) > 0,
     value |-> IF Len(lines) = 0 THEN <<>>
               ELSE IF default # <<>> /\ InputRead(lines[1], default, password) = <<>>
               THEN default
               ELSE InputRead(lines[1], default, password),
     rejected |-> 0]

\* get_input(prompt, required, default, password), the user typing lines[1],
\* lines[2], ... at its prompts: the value of the first line a pass accepts,
\* and the number of lines refused before it ("Это поле обязательно"). It
\* does not return while no line is accepted.
get_input(lines, required, default, password) ==
    LET good == {i \in 1..Len(lines) : InputAccepts(lines[i], required, default, password)}
        first == CHOOSE i \in good : \A j \in good : i <= j
    IN  IF good = {} THEN [returns |-> FALSE, value |-> <<>>, rejected |-> Len(lines)]
        ELSE [returns |-> TRUE,
              value |-> IF default # <<>> /\ InputRead(lines[first], default, password) = <<>>
                        THEN default
                        ELSE InputRead(lines[first], default, password),
              rejected |-> first - 1]

\* get_user_choice without the test of line 211: the first line typed is
\* returned, stripped, a key of the options or not.
get_user_choice_AnyLine(lines, options) ==
    [returns |-> Len(lines) > 0,
     value |-> IF Len(lines) = 0 THEN <<>> ELSE Strip(lines[1]),
     rejected |-> 0]

\* get_user_choice(options, prompt), the user typing lines[1], lines[2], ...:
\* the first stripped line that is a key of the options.
get_user_choice(lines, options) ==
    LET good == {i \in 1..Len(lines) : Strip(lines[i]) \in options}
        first == CHOOSE i \in good : \A j \in good : i <= j
    IN  IF good = {} THEN [returns |-> FALSE, value |-> <<>>, rejected |-> Len(lines)]
        ELSE [returns |-> TRUE, value |-> Strip(lines[first]), rejected |-> first - 1]

IsDigit(c) == c >= 48 /\ c <= 57

\* int(text) for a str: surrounding whitespace, one sign, then decimal digits
\* with single underscores between them; anything else is a ValueError.
IntDigits(text) ==
    LET t == Strip(text)
    IN  IF t # <<>> /\ t[1] \in {Ord("+"), Ord("-")} THEN Drop(t, 1) ELSE t

IntWellFormed(text) ==
    LET d == IntDigits(text)
    IN  /\ d # <<>>
        /\ \A i \in 1..Len(d) : IsDigit(d[i]) \/ d[i] = Ord("_")
        /\ IsDigit(d[1]) /\ IsDigit(d[Len(d)])
        /\ \A i \in 1..(Len(d) - 1) : ~(d[i] = Ord("_") /\ d[i + 1] = Ord("_"))

RECURSIVE DigitsValue(_, _)
DigitsValue(d, n) ==
    IF n = 0 THEN 0
    ELSE IF d[n] = Ord("_") THEN DigitsValue(d, n - 1)
    ELSE 10 * DigitsValue(d, n - 1) + (d[n] - 48)

int(text) ==
    IF ~IntWellFormed(text) THEN Raise("ValueError")
    ELSE LET v == DigitsValue(IntDigits(text), Len(IntDigits(text)))
         IN  Ok(IF Strip(text)[1] = Ord("-") THEN 0 - v ELSE v)

-----------------------------------------------------------------------------
(* The payloads of the kinds 1 to 9 (main.py and main2.py build them alike) *)

NL == <<10>>

\* wifi_config without the test of line 269: the P field is always written.
wifi_config_AlwaysP(ssid, password, encryption, hidden) ==
    S("WIFI:S:") \o ssid \o S(";T:") \o encryption \o S(";")
    \o S("P:") \o password \o S(";")
    \o (IF hidden THEN S("H:true;") ELSE <<>>)
    \o S(";")

\* create_wifi_qr, lines 268-273: the payload from the values read.
wifi_config(ssid, password, encryption, hidden) ==
    S("WIFI:S:") \o ssid \o S(";T:") \o encryption \o S(";")
    \o (IF password # <<>> THEN S("P:") \o password \o S(";") ELSE <<>>)
    \o (IF hidden THEN S("H:true;") ELSE <<>>)
    \o S(";")

\* url_encode without its second replace: ampersands are left as they are.
url_encode_SpacesOnly(text) ==
    Concat([i \in 1..Len(text) |-> IF text[i] = Ord(" ") THEN S("%20") ELSE <<text[i]>>])

\* url_encode: text.replace(' ', '%20').replace('&', '%26').
url_encode(text) ==
    Concat([i \in 1..Len(text) |->
               IF text[i] = Ord(" ") THEN S("%20")
               ELSE IF text[i] = Ord("&") THEN S("%26")
               ELSE <<text[i]>>])

\* create_email_qr, lines 288-296.
email_url(email, subject, body) ==
    LET params == (IF subject # <<>> THEN <<S("subject=") \o url_encode(subject)>> ELSE <<>>)
                  \o (IF body # <<>> THEN <<S("body=") \o url_encode(body)>> ELSE <<>>)
    IN  S("mailto:") \o email
        \o (IF params # <<>> THEN S("?") \o Join(S("&"), params) ELSE <<>>)

\* create_sms_qr, lines 310-312.
sms_url(number, message) ==
    S("sms:") \o number
    \o (IF message # <<>> THEN S("?body=") \o url_encode(message) ELSE <<>>)

\* vcard_data without the test of line 340: the ORG line is always written.
vcard_data_EmptyOrg(first_name, last_name, company, title, phone, email, website) ==
    Join(NL,
         << S("BEGIN:VCARD"),
            S("VERSION:3.0"),
            S("N:") \o last_name \o S(";") \o first_name \o S(";;;"),
            S("FN:") \o first_name \o S(" ") \o last_name,
            S("ORG:") \o company >>
         \o (IF title # <<>> THEN <<S("TITLE:") \o title>> ELSE <<>>)
         \o (IF phone # <<>> THEN <<S("TEL;TYPE=WORK,VOICE:") \o phone>> ELSE <<>>)
         \o (IF email # <<>> THEN <<S("EMAIL;TYPE=WORK:") \o email>> ELSE <<>>)
         \o (IF website # <<>> THEN <<S("URL:") \o website>> ELSE <<>>)
         \o << S("END:VCARD") >>)

\* create_vcard_qr, lines 333-353.
vcard_data(first_name, last_name, company, title, phone, email, website) ==
    Join(NL,
         << S("BEGIN:VCARD"),
            S("VERSION:3.0"),
            S("N:") \o last_name \o S(";") \o first_name \o S(";;;"),
            S("FN:") \o first_name \o S(" ") \o last_name >>
         \o (IF company # <<>> THEN <<S("ORG:") \o company>> ELSE <<>>)
         \o (IF title # <<>> THEN <<S("TITLE:") \o title>> ELSE <<>>)
         \o (IF phone # <<>> THEN <<S("TEL;TYPE=WORK,VOICE:") \o phone>> ELSE <<>>)
         \o (IF email # <<>> THEN <<S("EMAIL;TYPE=WORK:") \o email>> ELSE <<>>)
         \o (IF website # <<>> THEN <<S("URL:") \o website>> ELSE <<>>)
         \o << S("END:VCARD") >>)

\* create_geo_qr, lines 367-369.
geo_url(latitude, longitude, altitude) ==
    S("geo:") \o latitude \o S(",") \o longitude
    \o (IF altitude # <<>> THEN S(",") \o altitude ELSE <<>>)

\* create_phone_qr, line 381.
phone_url(number) == S("tel:") \o number

\* create_event_qr, lines 399-415.
event_data(title, location, description, start_date, end_date) ==
    Join(NL,
         << S("BEGIN:VEVENT"), S("SUMMARY:") \o title >>
         \o (IF location # <<>> THEN <<S("LOCATION:") \o location>> ELSE <<>>)
         \o (IF description # <<>> THEN <<S("DESCRIPTION:") \o description>> ELSE <<>>)
         \o (IF start_date # <<>> THEN <<S("DTSTART:") \o start_date>> ELSE <<>>)
         \o (IF end_date # <<>> THEN <<S("DTEND:") \o end_date>> ELSE <<>>)
         \o << S("END:VEVENT") >>)

-----------------------------------------------------------------------------
(* json.dumps(obj, ensure_ascii=False) and json.loads, for an object whose
   values are strings; the object is the sequence of its <<key, value>> pairs *)

Quote == 34
Backslash == 92

\* The characters the JSON grammar names.
LetterU == Ord("u")
LetterB == Ord("b")
LetterF == Ord("f")
LetterN == Ord("n")
LetterR == Ord("r")
LetterT == Ord("t")
Slash == Ord("/")
Colon == Ord(":")
CloseBrace == Ord("}")
OpenBrace == Ord("{")
Comma == Ord(",")

HexDigits == S("0123456789abcdef")

\* '\\u{0:04x}'.format(n)
JsonU(n) ==
    <<Backslash, LetterU, HexDigits[((n \div 4096) % 16) + 1],
      HexDigits[((n \div 256) % 16) + 1], HexDigits[((n \div 16) % 16) + 1],
      HexDigits[(n % 16) + 1]>>

\* json.encoder.ESCAPE_DCT: what a character of a string is written as.
JsonEscape(c) ==
    IF c = Backslash THEN <<Backslash, Backslash>>
    ELSE IF c = Quote THEN <<Backslash, Quote>>
    ELSE IF c = 8 THEN <<Backslash, LetterB>>
    ELSE IF c = 12 THEN <<Backslash, LetterF>>
    ELSE IF c = 10 THEN <<Backslash, LetterN>>
    ELSE IF c = 13 THEN <<Backslash, LetterR>>
    ELSE IF c = 9 THEN <<Backslash, LetterT>>
    ELSE IF c < 32 THEN JsonU(c)
    ELSE <<c>>

\* json.encoder.encode_basestring
JsonString(text) ==
    <<Quote>> \o Concat([i \in 1..Len(text) |-> JsonEscape(text[i])]) \o <<Quote>>

\* json.dumps of a dict of strings, in insertion order.
json_dumps(pairs) ==
    S("{")
    \o Join(S(", "), [i \in 1..Len(pairs) |->
                         JsonString(pairs[i][1]) \o S(": ") \o JsonString(pairs[i][2])])
    \o S("}")

\* The number of backslashes in a row that end at position j.
RECURSIVE BackslashRun(_, _)
BackslashRun(text, j) ==
    IF j >= 1 /\ text[j] = Backslash THEN 1 + BackslashRun(text, j - 1) ELSE 0

\* Position i holds a character that a backslash escapes.
JsonEscaped(text, i) == BackslashRun(text, i - 1) % 2 = 1

\* The quote that closes the string opened at position p, 0 when there is none.
JsonStringEnd(text, p) ==
    LET ends == {j \in (p + 1)..Len(text) : text[j] = Quote /\ ~JsonEscaped(text, j)}
    IN  IF ends = {} THEN 0 ELSE CHOOSE j \in ends : \A k \in ends : j <= k

IsHex(c) == IsDigit(c) \/ (c >= 97 /\ c <= 102) \/ (c >= 65 /\ c <= 70)

HexValue(c) == IF IsDigit(c) THEN c - 48 ELSE IF c >= 97 THEN c - 87 ELSE c - 55

\* Position i holds the u of an escape \uXXXX.
JsonIsU(text, i) == i >= 1 /\ text[i] = LetterU /\ JsonEscaped(text, i)

\* The number the four digits after the u at position i write.
JsonUValue(text, i) ==
    HexValue(text[i + 1]) * 4096 + HexValue(text[i + 2]) * 256
    + HexValue(text[i + 3]) * 16 + HexValue(text[i + 4])

\* Position i, inside a string that ends before position q, is well formed:
\* no raw control character, a known escape, four hex digits after \u.
JsonCharOk(text, i, q) ==
    /\ text[i] >= 32
    /\ JsonEscaped(text, i) =>
          /\ text[i] \in {Quote, Backslash, Slash, LetterB, LetterF, LetterN,
                          LetterR, LetterT, LetterU}
          /\ text[i] = LetterU =>
                (i + 4 < q /\ \A k \in 1..4 : IsHex(text[i + k]))

\* The escape \uXXXX at i writes a high surrogate and a low one follows it.
JsonPairAt(text, i, q) ==
    /\ JsonUValue(text, i) >= 55296 /\ JsonUValue(text, i) <= 56319
    /\ i + 10 < q
    /\ text[i + 5] = Backslash /\ text[i + 6] = LetterU
    /\ \A k \in 1..4 : IsHex(text[i + 6 + k])
    /\ JsonUValue(text, i + 6) >= 56320 /\ JsonUValue(text, i + 6) <= 57343

\* What position i of a string contributes to its value (py_scanstring).
JsonCharValue(text, i, q) ==
    IF JsonEscaped(text, i) THEN
        IF text[i] = LetterB THEN <<8>>
        ELSE IF text[i] = LetterF THEN <<12>>
        ELSE IF text[i] = LetterN THEN <<10>>
        ELSE IF text[i] = LetterR THEN <<13>>
        ELSE IF text[i] = LetterT THEN <<9>>
        ELSE IF text[i] # LetterU THEN <<text[i]>>
        ELSE IF JsonPairAt(text, i, q)
        THEN <<65536 + (JsonUValue(text, i) - 55296) * 1024 + (JsonUValue(text, i + 6) - 56320)>>
        ELSE IF JsonIsU(text, i - 6) /\ JsonPairAt(text, i - 6, q) THEN <<>>
        ELSE <<JsonUValue(text, i)>>
    ELSE IF text[i] = Backslash THEN <<>>
    ELSE IF \E k \in 1..4 : JsonIsU(text, i - k) THEN <<>>
    ELSE <<text[i]>>

\* The string between the quotes at p and q.
JsonStringValue(text, p, q) ==
    Concat([k \in 1..(q - p - 1) |-> JsonCharValue(text, p + k, q)])

JsonStringOk(text, p, q) ==
    /\ q > p
    /\ \A i \in (p + 1)..(q - 1) : JsonCharOk(text, i, q)
    /\ ~JsonEscaped(text, q)

JsonWs == {32, 9, 10, 13}

\* The first position from p on that holds no whitespace.
JsonSkip(text, p) ==
    LET rest == {j \in p..Len(text) : text[j] \notin JsonWs}
    IN  IF rest = {} THEN Len(text) + 1 ELSE CHOOSE j \in rest : \A k \in rest : j <= k

JsonAt(text, p) == IF p >= 1 /\ p <= Len(text) THEN text[p] ELSE -1

JsonError == [ok |-> FALSE, value |-> <<>>, error |-> "JSONDecodeError"]

\* The members of an object from position p on, p holding the quote that
\* opens a key: "key": "value", then a comma and the next member or the
\* closing brace and nothing more.
RECURSIVE JsonMembers(_, _)
JsonMembers(text, p) ==
    LET kq == JsonStringEnd(text, p)
        colon == JsonSkip(text, kq + 1)
        vp == JsonSkip(text, colon + 1)
        vq == JsonStringEnd(text, vp)
        next == JsonSkip(text, vq + 1)
    IN  IF JsonAt(text, p) # Quote \/ kq = 0 \/ ~JsonStringOk(text, p, kq) THEN JsonError
        ELSE IF JsonAt(text, colon) # Colon THEN JsonError
        ELSE IF JsonAt(text, vp) # Quote \/ vq = 0 \/ ~JsonStringOk(text, vp, vq) THEN JsonError
        ELSE LET pair == <<JsonStringValue(text, p, kq), JsonStringValue(text, vp, vq)>>
             IN  IF JsonAt(text, next) = CloseBrace
                 THEN IF JsonSkip(text, next + 1) = Len(text) + 1
                      THEN Ok(<<pair>>) ELSE JsonError
                 ELSE IF JsonAt(text, next) = Comma
                 THEN LET rest == JsonMembers(text, JsonSkip(text, next + 1))
                      IN  IF rest.ok THEN Ok(<<pair>> \o rest.value) ELSE JsonError
                 ELSE JsonError

\* json.loads(text) for an object of strings.
json_loads(text) ==
    LET open == JsonSkip(text, 1)
        first == JsonSkip(text, open + 1)
    IN  IF JsonAt(text, open) # OpenBrace THEN JsonError
        ELSE IF JsonAt(text, first) = CloseBrace
        THEN IF JsonSkip(text, first + 1) = Len(text) + 1 THEN Ok(<<>>) ELSE JsonError
        ELSE JsonMembers(text, first)

\* obj[key] of a parsed object: the value of the last pair with that key.
JsonHas(obj, key) == \E i \in 1..Len(obj) : obj[i][1] = key

JsonGet(obj, key) ==
    obj[CHOOSE i \in 1..Len(obj) :
            obj[i][1] = key /\ \A j \in (i + 1)..Len(obj) : obj[j][1] # key][2]

-----------------------------------------------------------------------------
(* The imaging library, as far as image_to_base64 uses it. An image is     *)
(* [mode, weight, flattened]: its colour mode, the number of bytes of its  *)
(* JPEG at quality 85, and how its transparency was removed.               *)

StartQuality == 85
QualityStep == 15
QualityFloor == 10
KB == 1024

\* The modes line 80 flattens.
AlphaModes == {"RGBA", "LA"}

\* Lines 80-83: an RGBA image is pasted on a white RGB background through
\* its alpha band; an LA image is pasted on it with no mask, which copies
\* its grey band and leaves nothing of the white; other modes are kept.
Flatten(img) ==
    IF img.mode \in AlphaModes
    THEN [img EXCEPT !.mode = "RGB",
                     !.flattened = IF img.mode = "RGBA" THEN "over_white"
                                   ELSE "alpha_dropped"]
    ELSE img

\* The modes Pillow's JPEG plugin writes; img.save raises OSError on others.
JpegWritable(mode) == mode \in {"1", "L", "RGB", "RGBX", "CMYK", "YCbCr"}

\* len(buffer.getvalue()) after img.save(buffer, format='JPEG',
\* quality=quality, optimize=True): smaller at a lower quality.
JpegSize(img, quality) == (img.weight * (quality + 15)) \div 100

\* The bytes of that JPEG: the SOI marker, then the compressed scan.
JpegBytes(img, quality) ==
    [i \in 1..JpegSize(img, quality) |->
        IF i = 1 THEN 255 ELSE IF i = 2 THEN 216 ELSE (img.weight * i + quality) % 256]

\* Line 92.
SizeKb(length) == length \div KB

\* Line 94 with the test on the size turned around: an attempt is kept only
\* when it is strictly below the target.
LoopEnds_Strict(size_kb, max_size_kb, quality) ==
    size_kb < max_size_kb \/ quality <= QualityFloor

\* Line 94 without the test on the quality: only a small enough attempt ends
\* the loop.
LoopEnds_NoFloor(size_kb, max_size_kb, quality) == size_kb <= max_size_kb

\* Line 94: the loop is left after this attempt.
LoopEnds(size_kb, max_size_kb, quality) ==
    size_kb <= max_size_kb \/ quality <= QualityFloor

\* Lines 86-96 for a writable image: the quality of the attempt that is kept.
RECURSIVE KeptQuality(_, _, _)
KeptQuality(img, max_size_kb, quality) ==
    IF LoopEnds(SizeKb(JpegSize(img, quality)), max_size_kb, quality) THEN quality
    ELSE KeptQuality(img, max_size_kb, quality - QualityStep)

\* image_to_base64(image_path, max_size_kb), file being what the path holds:
\* the data URI of the kept attempt, or the exception of line 109.
image_to_base64(file, max_size_kb) ==
    IF file.kind # "image" THEN Raise("Exception")
    ELSE LET img == Flatten(file.image)
             quality == KeptQuality(img, max_size_kb, StartQuality)
         IN  IF ~JpegWritable(img.mode) THEN Raise("Exception")
             ELSE Ok(S("data:image/jpeg;base64,") \o b64encode(JpegBytes(img, quality)))

-----------------------------------------------------------------------------
(* The handlers of the kinds 1 to 9. A handler is given t, the lines typed  *)
(* at each of its prompts in turn, and yields what it returns, the values   *)
(* its prompts returned and what it did, in order. It returns only when     *)
(* every prompt was answered with a line the prompt accepts.                *)

\* str.lower() on Basic Latin, Latin-1 and Cyrillic letters.
LowerChar(c) ==
    IF (c >= 65 /\ c <= 90) \/ (c >= 1040 /\ c <= 1071) THEN c + 32
    ELSE IF c >= 192 /\ c <= 222 /\ c # 215 THEN c + 32
    ELSE IF (c >= 1024 /\ c <= 1039) THEN c + 80
    ELSE c

Lower(text) == [i \in 1..Len(text) |-> LowerChar(text[i])]

\* What a handler that asked, built a payload and asked for the file name did.
PlainSteps == <<"fields", "payload", "filename">>

\* What a handler returns once the prompts it asked, in the sequence asked,
\* returned; of the lines t only those read by a prompt were typed.
HandlerResult(t, asked, result, name, steps) ==
    [returns |-> \A i \in 1..Len(asked) : asked[i].returns,
     data |-> result,
     filename |-> name,
     typed |-> [i \in 1..Len(asked) |->
                   Take(t[i], IF asked[i].returns THEN asked[i].rejected + 1
                              ELSE asked[i].rejected)],
     fields |-> [i \in 1..Len(asked) |-> asked[i].value],
     log |-> steps]

\* create_url_qr asking for the file name without a default.
create_url_qr_NoDefault(t) ==
    LET url == get_input(t[1], TRUE, <<>>, FALSE)
        filename == get_input(t[2], FALSE, <<>>, FALSE)
    IN  HandlerResult(t, <<url, filename>>, url.value, filename.value, PlainSteps)

\* create_url_qr, lines 234-242.
create_url_qr(t) ==
    LET url == get_input(t[1], TRUE, <<>>, FALSE)
        filename == get_input(t[2], FALSE, S("url_qr.png"), FALSE)
    IN  HandlerResult(t, <<url, filename>>, url.value, filename.value, PlainSteps)

\* create_text_qr that also saves the text it read to a file.
create_text_qr_Saves(t) ==
    LET text == get_input(t[1], TRUE, <<>>, FALSE)
        filename == get_input(t[2], FALSE, S("text_qr.png"), FALSE)
    IN  HandlerResult(t, <<text, filename>>, text.value, filename.value,
                      <<"fields", "payload", "write", "filename">>)

\* create_text_qr, lines 244-252.
create_text_qr(t) ==
    LET text == get_input(t[1], TRUE, <<>>, FALSE)
        filename == get_input(t[2], FALSE, S("text_qr.png"), FALSE)
    IN  HandlerResult(t, <<text, filename>>, text.value, filename.value, PlainSteps)

\* The keys of the options of lines 261-264.
WifiModes == {S("WPA"), S("WEP"), S("nopass")}

\* create_wifi_qr that takes the mode as typed instead of a key of the options.
create_wifi_qr_FreeMode(t) ==
    LET ssid == get_input(t[1], TRUE, <<>>, FALSE)
        password == get_input(t[2], FALSE, <<>>, FALSE)
        encryption == get_input(t[3], TRUE, <<>>, FALSE)
        answer == get_input(t[4], FALSE, S("n"), FALSE)
        hidden == Lower(answer.value) = S("y")
        filename == get_input(t[5], FALSE, S("wifi_qr.png"), FALSE)
    IN  HandlerResult(t, <<ssid, password, encryption, answer, filename>>,
                      wifi_config(ssid.value, password.value, encryption.value, hidden),
                      filename.value, PlainSteps)

\* create_wifi_qr, lines 254-277.
create_wifi_qr(t) ==
    LET ssid == get_input(t[1], TRUE, <<>>, FALSE)
        password == get_input(t[2], FALSE, <<>>, FALSE)
        encryption == get_user_choice(t[3], WifiModes)
        answer == get_input(t[4], FALSE, S("n"), FALSE)
        hidden == Lower(answer.value) = S("y")
        filename == get_input(t[5], FALSE, S("wifi_qr.png"), FALSE)
    IN  HandlerResult(t, <<ssid, password, encryption, answer, filename>>,
                      wifi_config(ssid.value, password.value, encryption.value, hidden),
                      filename.value, PlainSteps)

\* create_email_qr, lines 279-300.
create_email_qr(t) ==
    LET email == get_input(t[1], TRUE, <<>>, FALSE)
        subject == get_input(t[2], FALSE, <<>>, FALSE)
        body == get_input(t[3], FALSE, <<>>, FALSE)
        filename == get_input(t[4], FALSE, S("email_qr.png"), FALSE)
    IN  HandlerResult(t, <<email, subject, body, filename>>,
                      email_url(email.value, subject.value, body.value),
                      filename.value, PlainSteps)

\* create_sms_qr, lines 302-316.
create_sms_qr(t) ==
    LET number == get_input(t[1], TRUE, <<>>, FALSE)
        message == get_input(t[2], FALSE, <<>>, FALSE)
        filename == get_input(t[3], FALSE, S("sms_qr.png"), FALSE)
    IN  HandlerResult(t, <<number, message, filename>>,
                      sms_url(number.value, message.value), filename.value, PlainSteps)

\* create_vcard_qr, lines 318-356.
create_vcard_qr(t) ==
    LET first_name == get_input(t[1], TRUE, <<>>, FALSE)
        last_name == get_input(t[2], FALSE, <<>>, FALSE)
        company == get_input(t[3], FALSE, <<>>, FALSE)
        title == get_input(t[4], FALSE, <<>>, FALSE)
        phone == get_input(t[5], FALSE, <<>>, FALSE)
        email == get_input(t[6], FALSE, <<>>, FALSE)
        website == get_input(t[7], FALSE, <<>>, FALSE)
        filename == get_input(t[8], FALSE, S("contact_qr.png"), FALSE)
    IN  HandlerResult(t, <<first_name, last_name, company, title, phone, email, website,
                        filename>>,
                      vcard_data(first_name.value, last_name.value, company.value,
                                 title.value, phone.value, email.value, website.value),
                      filename.value, PlainSteps)

\* create_geo_qr, lines 358-373.
create_geo_qr(t) ==
    LET latitude == get_input(t[1], TRUE, <<>>, FALSE)
        longitude == get_input(t[2], TRUE, <<>>, FALSE)
        altitude == get_input(t[3], FALSE, <<>>, FALSE)
        filename == get_input(t[4], FALSE, S("geo_qr.png"), FALSE)
    IN  HandlerResult(t, <<latitude, longitude, altitude, filename>>,
                      geo_url(latitude.value, longitude.value, altitude.value),
                      filename.value, PlainSteps)

\* create_phone_qr, lines 375-385.
create_phone_qr(t) ==
    LET number == get_input(t[1], TRUE, <<>>, FALSE)
        filename == get_input(t[2], FALSE, S("phone_qr.png"), FALSE)
    IN  HandlerResult(t, <<number, filename>>, phone_url(number.value), filename.value,
                      PlainSteps)

\* create_event_qr, lines 387-418.
create_event_qr(t) ==
    LET title == get_input(t[1], TRUE, <<>>, FALSE)
        location == get_input(t[2], FALSE, <<>>, FALSE)
        description == get_input(t[3], FALSE, <<>>, FALSE)
        start_date == get_input(t[4], FALSE, <<>>, FALSE)
        end_date == get_input(t[5], FALSE, <<>>, FALSE)
        filename == get_input(t[6], FALSE, S("event_qr.png"), FALSE)
    IN  HandlerResult(t, <<title, location, description, start_date, end_date, filename>>,
                      event_data(title.value, location.value, description.value,
                                 start_date.value, end_date.value),
                      filename.value, PlainSteps)

-----------------------------------------------------------------------------
(* What the variables of one part hold while another part is run *)

\* Python's None where a string is expected: no string holds -1.
None == <<-1>>

NoImage == [mode |-> "", weight |-> 0, flattened |-> ""]

NoSettings == [fill_color |-> <<>>, bg_color |-> <<>>, box_size |-> 0]

NoResult == [ok |-> FALSE, value |-> <<>>, error |-> "not called"]

CodecIdle ==
    /\ c_pc = "idle"
    /\ c_text = <<>>
    /\ c_password = <<>>
    /\ c_iv = <<>>
    /\ c_encoded = <<>>
    /\ c_dpassword = <<>>
    /\ c_result = NoResult

ImageIdle ==
    /\ i_pc = "idle"
    /\ i_img = NoImage
    /\ i_max = 0
    /\ i_quality = 0
    /\ i_bytes = 0
    /\ i_size_kb = 0
    /\ i_saves = <<>>

\* The locals of main_menu before the first iteration assigns them.
MenuIdle ==
    /\ m_pc = "idle"
    /\ m_choice = <<>>
    /\ m_typed = <<>>
    /\ m_fields = <<>>
    /\ m_data = None
    /\ m_filename = None
    /\ m_settings = NoSettings
    /\ m_success = FALSE
    /\ m_log = <<>>
    /\ m_error = ""
    /\ m_demo = NoResult

-----------------------------------------------------------------------------
(* The file system and the clock that the handlers of the kinds 10 to 12    *)
(* read. A file is [kind, image, bytes].                                    *)

MaxFileChars == 10000

MaxExtra == 2  \* the longest text file, in characters above MaxFileChars

\* datetime.now().isoformat(): with microseconds, and without when they are 0.
Timestamps == {S("2026-11-03T09:15:42.500123"), S("2026-11-03T09:15:42")}

\* A backslash, a quote, a line feed, a tab, a control character, letters of
\* two and of four UTF-8 bytes.
LongPattern == <<92, 34, 97, 10, 1058, 32, 92, 92, 9, 128512, 1>>

LongText(n) == [i \in 1..n |-> LongPattern[((i - 1) % Len(LongPattern)) + 1]]

ImageFile(mode, weight) ==
    [kind |-> "image",
     image |-> [mode |-> mode, weight |-> weight, flattened |-> "no"],
     bytes |-> <<255, 216, 255, 224>>]

TextFile(bytes) == [kind |-> "text", image |-> NoImage, bytes |-> bytes]

Directory == [kind |-> "dir", image |-> NoImage, bytes |-> <<>>]

Locked == [kind |-> "locked", image |-> NoImage, bytes |-> <<>>]

\* The path of the text file of MaxFileChars - 1 + n characters.
LongPath(n) == S("docs/long") \o <<48 + n>> \o S(".txt")

\* What is on the disk: <<path, file>> pairs.
Disk ==
    << <<S("pic.jpg"), ImageFile("RGB", 24)>>,
       <<S("img/logo.png"), ImageFile("RGBA", 31)>>,
       <<S("pal.gif"), ImageFile("P", 20)>>,
       <<S("notes.txt"),
         TextFile(Utf8Bytes(<<1055, 1088, 1080, 34, 81, 82, 34, 13, 10, 92, 9, 128512>>))>>,
       <<S("empty.txt"), TextFile(<<>>)>>,
       <<S("bin.dat"), TextFile(<<72, 105, 255, 254>>)>>,
       <<S("secret.txt"), Locked>>,
       <<S("docs"), Directory>> >>
    \o [n \in 1..(MaxExtra + 2) |->
           <<LongPath(n - 1), TextFile(Utf8Bytes(LongText(MaxFileChars - 2 + n)))>>]

\* os.path.exists(path)
exists(path) == \E i \in 1..Len(Disk) : Disk[i][1] = path

FileAt(path) == Disk[CHOOSE i \in 1..Len(Disk) : Disk[i][1] = path][2]

\* os.path.basename(path): what follows the last slash.
basename(path) ==
    LET slashes == {i \in 1..Len(path) : path[i] = 47}
    IN  IF slashes = {} THEN path
        ELSE Drop(path, CHOOSE i \in slashes : \A j \in slashes : j <= i)

\* Text mode with newline=None: \r\n and \r are read as \n.
UniversalNewlines(text) ==
    Concat([i \in 1..Len(text) |->
               IF text[i] # 13 THEN <<text[i]>>
               ELSE IF i < Len(text) /\ text[i + 1] = 10 THEN <<>>
               ELSE <<10>>])

\* Lines 507-508: open(file_path, 'r', encoding='utf-8') and f.read().
file_read(file) ==
    IF file.kind = "dir" THEN Raise("IsADirectoryError")
    ELSE IF file.kind = "locked" THEN Raise("PermissionError")
    ELSE LET text == bytes_decode(file.bytes)
         IN  IF text.ok THEN Ok(UniversalNewlines(text.value)) ELSE text

-----------------------------------------------------------------------------
(* The handlers of the kinds 10 to 12; now is what the clock reads and iv   *)
(* what get_random_bytes(16) returns.                                       *)

\* The value of the one element of a set: in The({e : x \in {d}}) the value
\* d is computed once and named x in e, as an assignment x = d does.
The(set) == CHOOSE x \in set : TRUE

\* create_image_qr whose envelope lacks the format of line 438.
create_image_qr_NoFormat(t, now) ==
    LET image_path == get_input(t[1], TRUE, <<>>, FALSE)
        filename == get_input(t[2], FALSE, S("image_qr.png"), FALSE)
    IN  IF ~image_path.returns THEN HandlerResult(t, <<image_path>>, None, None, <<>>)
        ELSE IF ~exists(image_path.value)
        THEN HandlerResult(t, <<image_path>>, None, None, <<"fields", "exists">>)
        ELSE The({
            IF ~base64_image.ok
            THEN HandlerResult(t, <<image_path>>, None, None,
                               <<"fields", "exists", "recompress">>)
            ELSE The({
                HandlerResult(t, <<image_path, filename>>, json_dumps(image_data),
                              filename.value,
                              <<"fields", "exists", "recompress", "wrap", "filename">>) :
                image_data \in {<< <<S("type"), S("image")>>,
                                   <<S("data"), base64_image.value>>,
                                   <<S("timestamp"), now>> >>}}) :
            base64_image \in {image_to_base64(FileAt(image_path.value), 500)}})

\* create_image_qr, lines 420-450.
create_image_qr(t, now) ==
    LET image_path == get_input(t[1], TRUE, <<>>, FALSE)
        filename == get_input(t[2], FALSE, S("image_qr.png"), FALSE)
    IN  IF ~image_path.returns THEN HandlerResult(t, <<image_path>>, None, None, <<>>)
        ELSE IF ~exists(image_path.value)
        THEN HandlerResult(t, <<image_path>>, None, None, <<"fields", "exists">>)
        ELSE The({
            IF ~base64_image.ok
            THEN HandlerResult(t, <<image_path>>, None, None,
                               <<"fields", "exists", "recompress">>)
            ELSE The({
                HandlerResult(t, <<image_path, filename>>, json_dumps(image_data),
                              filename.value,
                              <<"fields", "exists", "recompress", "wrap", "filename">>) :
                image_data \in {<< <<S("type"), S("image")>>,
                                   <<S("format"), S("jpeg")>>,
                                   <<S("data"), base64_image.value>>,
                                   <<S("timestamp"), now>> >>}}) :
            base64_image \in {image_to_base64(FileAt(image_path.value), 500)}})

\* create_encrypted_image_qr with the two tests of lines 461-467 made after
\* the image was recompressed and encrypted.
create_encrypted_image_qr_LateTests(t, iv, now) ==
    LET image_path == get_input(t[1], TRUE, <<>>, FALSE)
        password == get_input(t[2], TRUE, <<>>, TRUE)
        confirm_password == get_input(t[3], TRUE, <<>>, TRUE)
        asked == <<image_path, password, confirm_password>>
        filename == get_input(t[4], FALSE, S("encrypted_image_qr.png"), FALSE)
    IN  IF \E i \in 1..3 : ~asked[i].returns THEN HandlerResult(t, asked, None, None, <<>>)
        ELSE The({
            IF ~base64_image.ok
            THEN HandlerResult(t, asked, None, None, <<"fields", "exists", "recompress">>)
            ELSE The({
                IF ~encrypted_data.ok \/ password.value # confirm_password.value
                THEN HandlerResult(t, asked, None, None,
                                   <<"fields", "exists", "recompress", "encrypt">>)
                ELSE The({
                    HandlerResult(t, asked \o <<filename>>, json_dumps(encrypted_package),
                                  filename.value,
                                  <<"fields", "exists", "recompress", "encrypt", "wrap",
                                    "filename">>) :
                    encrypted_package \in {<< <<S("type"), S("encrypted_image")>>,
                                              <<S("algorithm"), S("AES-256-CBC")>>,
                                              <<S("data"), encrypted_data.value>>,
                                              <<S("timestamp"), now>> >>}}) :
                encrypted_data \in {The({encrypt_data(base64_image.value, key, iv) :
                                         key \in {password.value}})}}) :
            base64_image \in {IF exists(image_path.value)
                              THEN image_to_base64(FileAt(image_path.value), 300)
                              ELSE Raise("Exception")}})

\* create_encrypted_image_qr, lines 452-492.
create_encrypted_image_qr(t, iv, now) ==
    LET image_path == get_input(t[1], TRUE, <<>>, FALSE)
        password == get_input(t[2], TRUE, <<>>, TRUE)
        confirm_password == get_input(t[3], TRUE, <<>>, TRUE)
        asked == <<image_path, password, confirm_password>>
        filename == get_input(t[4], FALSE, S("encrypted_image_qr.png"), FALSE)
    IN  IF \E i \in 1..3 : ~asked[i].returns THEN HandlerResult(t, asked, None, None, <<>>)
        ELSE IF password.value # confirm_password.value
        THEN HandlerResult(t, asked, None, None, <<"fields">>)
        ELSE IF ~exists(image_path.value)
        THEN HandlerResult(t, asked, None, None, <<"fields", "exists">>)
        ELSE The({
            IF ~base64_image.ok
            THEN HandlerResult(t, asked, None, None, <<"fields", "exists", "recompress">>)
            ELSE The({
                IF ~encrypted_data.ok
                THEN HandlerResult(t, asked, None, None,
                                   <<"fields", "exists", "recompress", "encrypt">>)
                ELSE The({
                    HandlerResult(t, asked \o <<filename>>, json_dumps(encrypted_package),
                                  filename.value,
                                  <<"fields", "exists", "recompress", "encrypt", "wrap",
                                    "filename">>) :
                    encrypted_package \in {<< <<S("type"), S("encrypted_image")>>,
                                              <<S("algorithm"), S("AES-256-CBC")>>,
                                              <<S("data"), encrypted_data.value>>,
                                              <<S("timestamp"), now>> >>}}) :
                encrypted_data \in {The({encrypt_data(base64_image.value, key, iv) :
                                         key \in {password.value}})}}) :
            base64_image \in {image_to_base64(FileAt(image_path.value), 300)}})

\* create_file_qr that cuts a file of MaxFileChars characters or more down to
\* one character less than MaxFileChars.
create_file_qr_CutShort(t, now) ==
    LET file_path == get_input(t[1], TRUE, <<>>, FALSE)
        filename == get_input(t[2], FALSE, S("file_qr.png"), FALSE)
    IN  IF ~file_path.returns THEN HandlerResult(t, <<file_path>>, None, None, <<>>)
        ELSE IF ~exists(file_path.value)
        THEN HandlerResult(t, <<file_path>>, None, None, <<"fields", "exists">>)
        ELSE The({
            IF ~read.ok
            THEN HandlerResult(t, <<file_path>>, None, None, <<"fields", "exists", "read">>)
            ELSE The({
                HandlerResult(t, <<file_path, filename>>, json_dumps(file_data),
                              filename.value,
                              <<"fields", "exists", "read", "wrap", "filename">>) :
                file_data \in {<< <<S("type"), S("text_file")>>,
                                  <<S("filename"), basename(file_path.value)>>,
                                  <<S("data"), IF Len(read.value) >= MaxFileChars
                                               THEN Take(read.value, MaxFileChars - 1)
                                               ELSE read.value>>,
                                  <<S("timestamp"), now>> >>}}) :
            read \in {file_read(FileAt(file_path.value))}})

\* create_file_qr, lines 494-530.
create_file_qr(t, now) ==
    LET file_path == get_input(t[1], TRUE, <<>>, FALSE)
        filename == get_input(t[2], FALSE, S("file_qr.png"), FALSE)
    IN  IF ~file_path.returns THEN HandlerResult(t, <<file_path>>, None, None, <<>>)
        ELSE IF ~exists(file_path.value)
        THEN HandlerResult(t, <<file_path>>, None, None, <<"fields", "exists">>)
        ELSE The({
            IF ~read.ok
            THEN HandlerResult(t, <<file_path>>, None, None, <<"fields", "exists", "read">>)
            ELSE The({
                HandlerResult(t, <<file_path, filename>>, json_dumps(file_data),
                              filename.value,
                              <<"fields", "exists", "read", "wrap", "filename">>) :
                file_data \in {<< <<S("type"), S("text_file")>>,
                                  <<S("filename"), basename(file_path.value)>>,
                                  <<S("data"), IF Len(read.value) > MaxFileChars
                                               THEN Take(read.value, MaxFileChars)
                                               ELSE read.value>>,
                                  <<S("timestamp"), now>> >>}}) :
            read \in {file_read(FileAt(file_path.value))}})

-----------------------------------------------------------------------------
(* get_qr_settings and generate_qr_code *)

\* The keys of the options of lines 545-551 and of lines 575-578.
ColorOptions == {S("1"), S("2"), S("3"), S("4"), S("5"), S("6"), S("7")}

SizeOptions == {S("1"), S("2"), S("3"), S("4")}

\* Lines 555-562.
color_presets ==
    (S("1") :> <<S("#000000"), S("#FFFFFF")>>)
    @@ (S("2") :> <<S("#FFFFFF"), S("#000000")>>)
    @@ (S("3") :> <<S("#1E40AF"), S("#EFF6FF")>>)
    @@ (S("4") :> <<S("#065F46"), S("#ECFDF5")>>)
    @@ (S("5") :> <<S("#991B1B"), S("#FEF2F2")>>)
    @@ (S("6") :> <<S("#5B21B6"), S("#FAF5FF")>>)

\* Line 582.
size_presets == (S("1") :> 8) @@ (S("2") :> 12) @@ (S("3") :> 16)

\* presets[key] of a dict: a key the dict does not hold is a KeyError.
Lookup(presets, key) ==
    IF key \in DOMAIN presets THEN Ok(presets[key]) ELSE Raise("KeyError")

\* get_qr_settings, lines 536-590, t being the lines typed at the colour
\* choice, the two colour prompts, the size choice and the size prompt. The
\* lookups of lines 568 and 586 and the int() of line 584 stand in no try
\* block: a KeyError or a ValueError leaves the call, and after the first
\* nothing more is asked.
get_qr_settings(t) ==
    LET color_choice == get_user_choice(t[1], ColorOptions)
        custom_color == color_choice.value = S("7")
        fill == get_input(t[2], FALSE, S("#000000"), FALSE)
        bg == get_input(t[3], FALSE, S("#FFFFFF"), FALSE)
        colors == IF custom_color THEN Ok(<<fill.value, bg.value>>)
                  ELSE Lookup(color_presets, color_choice.value)
        size_choice == get_user_choice(t[4], SizeOptions)
        custom_size == size_choice.value = S("4")
        typed_size == get_input(t[5], FALSE, S("12"), FALSE)
        box_size == IF custom_size THEN int(typed_size.value)
                    ELSE Lookup(size_presets, size_choice.value)
        asked == <<color_choice>>
                 \o (IF custom_color THEN <<fill, bg>> ELSE <<>>)
                 \o (IF ~colors.ok THEN <<>>
                     ELSE <<size_choice>>
                          \o (IF custom_size THEN <<typed_size>> ELSE <<>>))
        lines == <<t[1]>>
                 \o (IF custom_color THEN <<t[2], t[3]>> ELSE <<>>)
                 \o <<t[4]>>
                 \o (IF custom_size THEN <<t[5]>> ELSE <<>>)
    IN  [returns |-> \A i \in 1..Len(asked) : asked[i].returns,
         error |-> IF \E i \in 1..Len(asked) : ~asked[i].returns THEN ""
                   ELSE IF ~colors.ok THEN colors.error
                   ELSE box_size.error,
         settings |-> [fill_color |-> IF colors.ok THEN colors.value[1] ELSE <<>>,
                       bg_color |-> IF colors.ok THEN colors.value[2] ELSE <<>>,
                       box_size |-> IF colors.ok /\ box_size.ok THEN box_size.value ELSE 0],
         typed |-> [i \in 1..Len(asked) |-> Take(lines[i], asked[i].rejected + 1)]]

\* What the largest symbol (version 40) holds at error correction H: bytes,
\* and decimal digits, the densest content.
CapacityBytes == 1273
CapacityDigits == 3057

\* A colour the imaging library surely knows: # and 3, 4, 6 or 8 hex digits.
HexColor(color) ==
    /\ Len(color) \in {4, 5, 7, 9}
    /\ color[1] = 35
    /\ \A i \in 2..Len(color) : IsHex(color[i])

\* What the renderer and the file system may answer to lines 599-615: the
\* constructor refuses a box_size below 1; qr.make(fit=True) overflows when
\* no symbol holds the data, surely above CapacityDigits characters, never
\* up to CapacityBytes bytes; make_image may refuse a colour that is no hex
\* colour; save may fail.
RenderOutcomes(text, settings) ==
    IF settings.box_size <= 0 THEN {"ValueError"}
    ELSE IF Len(text) > CapacityDigits THEN {"DataOverflowError"}
    ELSE (IF Len(Utf8Bytes(text)) > CapacityBytes THEN {"DataOverflowError"} ELSE {})
         \cup (IF HexColor(settings.fill_color) /\ HexColor(settings.bg_color)
               THEN {} ELSE {"ValueError"})
         \cup {"OSError", "ok"}

\* generate_qr_code, lines 592-636, outcome being the answer of the world:
\* whether it succeeded, and what it did.
generate_qr_code(text, name, settings, outcome) ==
    [success |-> text # None /\ outcome = "ok",
     log |-> IF text = None THEN <<>>
             ELSE IF outcome = "ok" THEN <<"render", "write">>
             ELSE IF outcome = "OSError" THEN <<"render", "write", outcome>>
             ELSE <<"render", outcome>>]

-----------------------------------------------------------------------------
(* decrypt_menu *)

\* Line 703: "Тестовые данные для демонстрации".
test_data ==
    <<1058, 1077, 1089, 1090, 1086, 1074, 1099, 1077, 32, 1076, 1072, 1085, 1085,
      1099, 1077, 32, 1076, 1083, 1103, 32, 1076, 1077, 1084, 1086, 1085, 1089,
      1090, 1088, 1072, 1094, 1080, 1080>>

\* Lines 703-705 with the password stripped before line 705 decrypts.
Demonstration_StripsPassword(password, iv) ==
    The({IF ~encrypted.ok THEN encrypted
         ELSE The({decrypt_data(text, Strip(password)) : text \in {encrypted.value}}) :
         encrypted \in {encrypt_data(test_data, password, iv)}})

\* Lines 703-705: what the demonstration returned or raised.
Demonstration(password, iv) ==
    The({IF ~encrypted.ok THEN encrypted
         ELSE The({decrypt_data(text, password) : text \in {encrypted.value}}) :
         encrypted \in {encrypt_data(test_data, password, iv)}})

\* decrypt_menu, lines 681-715, t being the lines typed at the path prompt
\* and at the password prompt: what the demonstration of lines 703-705
\* returned or raised, and what was done.
decrypt_menu(t, iv) ==
    LET qr_image_path == get_input(t[1], TRUE, <<>>, FALSE)
        password == get_input(t[2], TRUE, <<>>, TRUE)
        found == qr_image_path.returns /\ exists(qr_image_path.value)
        asked == IF found THEN <<qr_image_path, password>> ELSE <<qr_image_path>>
    IN  [returns |-> \A i \in 1..Len(asked) : asked[i].returns,
         demo |-> IF found /\ password.returns
                  THEN The({Demonstration(key, iv) : key \in {password.value}})
                  ELSE NoResult,
         typed |-> [i \in 1..Len(asked) |->
                       Take(t[i], IF asked[i].returns THEN asked[i].rejected + 1
                                  ELSE asked[i].rejected)],
         fields |-> [i \in 1..Len(asked) |-> asked[i].value],
         log |-> IF ~found THEN <<"decrypt_menu", "exists">>
                 ELSE <<"decrypt_menu", "exists", "demo", "enter">>]

-----------------------------------------------------------------------------
(* The codec on its own: encrypt_data and decrypt_data applied to drawn inputs *)

MaxTextLen == 17      \* the longest plaintext, in characters
MaxForgedBlocks == 2  \* the longest forged message, in blocks

\* Characters of one, two, three and four UTF-8 bytes.
TextPatterns ==
    << S("a"),
       <<1058, 1077, 1089, 1090, 32, 1076, 1072, 1085>>,
       <<8364, 128512, 34, 233>> >>

\* The first n characters of pattern number k, repeated.
PatternText(k, n) == [i \in 1..n |-> TextPatterns[k][((i - 1) % Len(TextPatterns[k])) + 1]]

Plaintexts == {PatternText(k, n) : k \in 1..Len(TextPatterns), n \in 0..MaxTextLen}

Passwords == {S("pw"), <<1087, 1072, 1088, 1086, 1083, 1100>>}

IVs == {[i \in 1..16 |-> 0], [i \in 1..16 |-> (37 * i + 11) % 256]}

\* Byte strings that are no UTF-8: a stray continuation byte, a lead byte cut
\* short, an overlong form, a surrogate, a byte no UTF-8 text holds.
BadUtf8 == {<<128>>, <<97, 208>>, <<192, 128>>, <<237, 160, 128>>, <<255, 97>>}

\* What a forged message decrypts to: whole blocks whose padding is wrong
\* (last byte 0, last byte above 16, last bytes not all the padding length),
\* and rightly padded blocks whose content is valid or no UTF-8.
ForgedPlainBlocks ==
    {Rep(<<65>>, 16 * n - 1) \o <<last>> : n \in 1..MaxForgedBlocks, last \in {0, 17, 65, 200}}
    \cup {Rep(<<65>>, 16 * n - 3) \o <<3, 2, 3>> : n \in 1..MaxForgedBlocks}
    \cup {pad(b, 16) : b \in BadUtf8}
    \cup {pad(Rep(<<66>>, 16 * (n - 1)), 16) : n \in 1..MaxForgedBlocks}

\* The message that decrypts, under the password and IV, to the blocks.
Forged(blocks, password, iv) ==
    b64encode(iv \o CbcEncryptBlocks(sha256(Utf8Bytes(password)), iv, blocks))

\* What can happen to a message on its way: cut after k bytes, cut inside a
\* base64 quad, a byte of the last block changed, a byte added, a character
\* that is no base64 inserted, a character that is no ASCII inserted.
Tampered(encoded) ==
    LET raw == B64Scan(encoded)
        n == Len(raw)
    IN  {b64encode(Take(raw, k)) : k \in {0, 1, 15, 16, 17, 31, 32, n - 1}}
        \cup {Take(encoded, Len(encoded) - k) : k \in 1..3}
        \cup {b64encode(Take(raw, n - 1) \o <<(raw[n] + 1) % 256>>)}
        \cup {b64encode(raw \o <<7>>)}
        \cup {<<Ord("-")>> \o encoded, <<1046>> \o encoded}

CodecInit ==
    /\ c_pc = "start"
    /\ c_text \in Plaintexts
    /\ c_password \in Passwords
    /\ c_iv \in IVs
    /\ c_encoded = <<>>
    /\ c_dpassword = <<>>
    /\ c_result = NoResult
    /\ ImageIdle
    /\ MenuIdle

\* encrypt_data(c_text, c_password) with the IV drawn.
CodecEncrypt ==
    /\ c_pc = "start"
    /\ LET r == encrypt_data(c_text, c_password, c_iv)
       IN  /\ r.ok
           /\ c_encoded' = r.value
    /\ c_pc' = "encrypted"
    /\ UNCHANGED <<c_text, c_password, c_iv, c_dpassword, c_result>>
    /\ UNCHANGED <<imageVars, menuVars>>

\* The message is changed before it is decrypted.
CodecTamper ==
    /\ c_pc = "encrypted"
    /\ c_encoded' \in Tampered(c_encoded)
    /\ c_pc' = "tampered"
    /\ UNCHANGED <<c_text, c_password, c_iv, c_dpassword, c_result>>
    /\ UNCHANGED <<imageVars, menuVars>>

\* A message that encrypt_data did not make. It does not depend on the text,
\* so it is drawn in the runs of the empty text.
CodecForge ==
    /\ c_pc = "start"
    /\ c_text = <<>>
    /\ \E blocks \in ForgedPlainBlocks : c_encoded' = Forged(blocks, c_password, c_iv)
    /\ c_pc' = "tampered"
    /\ UNCHANGED <<c_text, c_password, c_iv, c_dpassword, c_result>>
    /\ UNCHANGED <<imageVars, menuVars>>

\* decrypt_data(c_encoded, password) with the same or another password.
CodecDecrypt ==
    /\ c_pc \in {"encrypted", "tampered"}
    /\ \E password \in Passwords :
        /\ c_dpassword' = password
        /\ c_result' = decrypt_data(c_encoded, password)
    /\ c_pc' = IF c_pc = "encrypted" THEN "decrypted" ELSE "rejected_or_decrypted"
    /\ UNCHANGED <<c_text, c_password, c_iv, c_encoded>>
    /\ UNCHANGED <<imageVars, menuVars>>

CodecNext == CodecEncrypt \/ CodecTamper \/ CodecForge \/ CodecDecrypt

SpecCodec == CodecInit /\ [][CodecNext]_vars

-----------------------------------------------------------------------------
(* Properties of the codec *)

Pkcs7Valid(blocks) ==
    /\ Len(blocks) > 0
    /\ blocks[Len(blocks)] \in 1..16
    /\ \A i \in (Len(blocks) - blocks[Len(blocks)] + 1)..Len(blocks) :
           blocks[i] = blocks[Len(blocks)]

\* What the ciphertext part of raw decrypts to under the password.
DecryptedBlocks(raw, password) ==
    CbcDecryptBlocks(sha256(Utf8Bytes(password)), Take(raw, 16), Drop(raw, 16))

\* The malformed inputs of C9, for an input that is base64.
Malformed(encoded, password) ==
    LET raw == B64Scan(encoded)
    IN  /\ raw # <<-1>>
        /\ \/ Len(raw) < 16
           \/ Len(raw) = 16
           \/ (Len(raw) - 16) % 16 # 0
           \/ ~Pkcs7Valid(DecryptedBlocks(raw, password))
           \/ LET blocks == DecryptedBlocks(raw, password)
              IN  ~Utf8Valid(Take(blocks, Len(blocks) - blocks[Len(blocks)]))

\* C9: decrypt_data returns no value for a malformed input: one whose decoded
\* length is below 16 bytes, whose ciphertext part is empty or no multiple of
\* 16 bytes, whose decrypted padding is invalid or whose unpadded bytes are no
\* UTF-8. It raises instead.
C9_MalformedRaises ==
    (c_pc \in {"decrypted", "rejected_or_decrypted"} /\ Malformed(c_encoded, c_dpassword))
        => ~c_result.ok

\* A rightly padded message whose content is no UTF-8 was refused.
C9_Witness ==
    /\ c_pc = "rejected_or_decrypted"
    /\ LET raw == B64Scan(c_encoded)
       IN  /\ raw # <<-1>>
           /\ Len(raw) > 16
           /\ Len(raw) % 16 = 0
           /\ Pkcs7Valid(DecryptedBlocks(raw, c_dpassword))
    /\ Malformed(c_encoded, c_dpassword)
    /\ ~c_result.ok

\* C10: what encrypt_data returns is the base64 encoding of the 16-byte IV
\* followed by the ciphertext, the ciphertext is a non-zero multiple of 16
\* bytes long and is the CBC encryption of the padded text, and decrypt_data
\* splits its decoded input at that boundary.
C10_IvThenCiphertext ==
    c_pc = "encrypted" =>
        LET raw == B64Scan(c_encoded)
            parts == DecryptSplit(raw)
        IN  /\ raw # <<-1>>
            /\ c_encoded = b64encode(c_iv \o parts.ciphertext)
            /\ parts.iv = c_iv
            /\ Len(parts.iv) = 16
            /\ Len(parts.ciphertext) > 0
            /\ Len(parts.ciphertext) % 16 = 0
            /\ Len(parts.ciphertext) = 16 * ((Len(Utf8Bytes(c_text)) \div 16) + 1)
            /\ Take(DecryptedBlocks(raw, c_password), Len(Utf8Bytes(c_text)))
                   = Utf8Bytes(c_text)

\* A text of exactly one block was encrypted into two blocks of ciphertext.
C10_Witness ==
    /\ c_pc = "encrypted"
    /\ Len(Utf8Bytes(c_text)) = 16
    /\ Len(B64Scan(c_encoded)) = 48

\* The least number of parts of size b that hold a.
CeilDiv(a, b) == (a + b - 1) \div b

\* C11 as stated: for a plaintext of len bytes, encrypt_data returns
\* 24 + 4 * ceil((ceil(len / 16) * 16) / 3) characters.
C11_LengthAsStated ==
    c_pc = "encrypted" =>
        Len(c_encoded) = 24 + 4 * CeilDiv(CeilDiv(Len(Utf8Bytes(c_text)), 16) * 16, 3)

\* C11 as amended: for a plaintext of len bytes, encrypt_data returns the
\* base64 text of the 16 bytes of the IV and the (len div 16 + 1) * 16 bytes
\* of the ciphertext together, 4 * ceil((16 + (len div 16 + 1) * 16) / 3)
\* characters, the padding being a whole block when len is a multiple of 16.
C11_LengthOfIvAndBlocks ==
    c_pc = "encrypted" =>
        /\ Len(c_encoded) = 4 * CeilDiv(16 + ((Len(Utf8Bytes(c_text)) \div 16) + 1) * 16, 3)
        /\ Len(c_encoded) % 4 = 0
        /\ c_text = <<>> => Len(c_encoded) = 44

\* A text of exactly two blocks was encrypted: with the IV and the block of
\* padding 64 bytes, 88 characters.
C11_Witness ==
    /\ c_pc = "encrypted"
    /\ Len(Utf8Bytes(c_text)) = 32
    /\ Len(c_encoded) = 88

-----------------------------------------------------------------------------
(* image_to_base64 step by step, lines 78-106 *)

MaxScale == 5  \* the heaviest image, in targets: its JPEG at quality 85

ImageModes == {"RGB", "RGBA", "LA", "L", "P", "CMYK"}

Targets == {300, 500}  \* max_size_kb: line 471, and the default of line 75

\* Weights around the target, and from the target up to MaxScale targets.
Weights(max_size_kb) ==
    {max_size_kb * KB + d : d \in {0 - KB, -1, 0, 1, KB - 1, KB}}
    \cup {(max_size_kb * KB * k) \div 2 : k \in 1..(2 * MaxScale)}

ImageInit ==
    /\ i_pc = "open"
    /\ i_max \in Targets
    /\ \E mode \in ImageModes, weight \in Weights(i_max) :
           i_img = [mode |-> mode, weight |-> weight, flattened |-> "no"]
    /\ i_quality = 0
    /\ i_bytes = 0
    /\ i_size_kb = 0
    /\ i_saves = <<>>
    /\ CodecIdle
    /\ MenuIdle

\* Lines 78-86: the image is opened and flattened, the quality starts at 85.
ImgOpen ==
    /\ i_pc = "open"
    /\ i_img' = Flatten(i_img)
    /\ i_quality' = StartQuality
    /\ i_pc' = "save"
    /\ UNCHANGED <<i_max, i_bytes, i_size_kb, i_saves>>
    /\ UNCHANGED <<codecVars, menuVars>>

\* Lines 90-92: one attempt at the current quality.
ImgSave ==
    /\ i_pc = "save"
    /\ JpegWritable(i_img.mode)
    /\ i_bytes' = JpegSize(i_img, i_quality)
    /\ i_size_kb' = SizeKb(JpegSize(i_img, i_quality))
    /\ i_saves' = Append(i_saves, i_quality)
    /\ i_pc' = "test"
    /\ UNCHANGED <<i_img, i_max, i_quality>>
    /\ UNCHANGED <<codecVars, menuVars>>

\* Line 91 for a mode the JPEG plugin does not write, then line 109.
ImgSaveRaises ==
    /\ i_pc = "save"
    /\ ~JpegWritable(i_img.mode)
    /\ i_saves' = Append(i_saves, i_quality)
    /\ i_pc' = "raised"
    /\ UNCHANGED <<i_img, i_max, i_quality, i_bytes, i_size_kb>>
    /\ UNCHANGED <<codecVars, menuVars>>

\* Lines 94-95 and 98-106: the attempt is kept and returned.
ImgBreak ==
    /\ i_pc = "test"
    /\ LoopEnds(i_size_kb, i_max, i_quality)
    /\ i_pc' = "returned"
    /\ UNCHANGED <<i_img, i_max, i_quality, i_bytes, i_size_kb, i_saves>>
    /\ UNCHANGED <<codecVars, menuVars>>

\* Line 96: the quality is lowered for another attempt.
ImgLower ==
    /\ i_pc = "test"
    /\ ~LoopEnds(i_size_kb, i_max, i_quality)
    /\ i_quality' = i_quality - QualityStep
    /\ i_pc' = "save"
    /\ UNCHANGED <<i_img, i_max, i_bytes, i_size_kb, i_saves>>
    /\ UNCHANGED <<codecVars, menuVars>>

ImageNext == ImgOpen \/ ImgSave \/ ImgSaveRaises \/ ImgBreak \/ ImgLower

SpecImage == ImageInit /\ [][ImageNext]_vars

\* The call runs on: nothing suspends it between two of its steps.
SpecImageFair == SpecImage /\ WF_vars(ImageNext)

-----------------------------------------------------------------------------
(* Properties of the recompression loop *)

\* C6: when image_to_base64 returns, the JPEG it kept has at most
\* max_size_kb * 1024 bytes or the quality has reached the floor of 10; the
\* quality started at 85 and was lowered by 15 only after an attempt that was
\* above the target, so an image that fits at 85 is kept at 85.
C6_WithinTargetOrFloor ==
    i_pc = "returned" =>
        /\ i_bytes <= i_max * 1024 \/ i_quality <= 10
        /\ i_saves[1] = 85
        /\ \A k \in 2..Len(i_saves) :
              /\ i_saves[k] = i_saves[k - 1] - 15
              /\ JpegSize(i_img, i_saves[k - 1]) > i_max * 1024
        /\ i_quality = i_saves[Len(i_saves)]
        /\ JpegSize(i_img, 85) <= i_max * 1024 => i_quality = 85

-----------------------------------------------------------------------------
(* main_menu of main2.py, lines 638-679: what the user types *)

MaxRefused == 2  \* the lines a prompt refuses before the user types a good one

\* Lines a required prompt refuses: empty, blank, blank.
RefusedLines == [k \in 1..MaxRefused |-> IF k = 1 THEN <<>> ELSE Rep(<<32>>, k)]

\* The ways a value is typed at a prompt: at once, or padded with blanks
\* after lines that hold nothing.
Direct(values) == {<<v>> : v \in values}

Retyped(values) == {RefusedLines \o <<S(" ") \o v \o S("  ")>> : v \in values}

\* An optional prompt left empty, or answered.
Optional(values) == {<< <<>> >>} \cup Direct(values)

\* All the sequences that take their i-th element from sets[i].
RECURSIVE Product(_)
Product(sets) ==
    IF sets = <<>> THEN {<<>>}
    ELSE {<<x>> \o rest : x \in Head(sets), rest \in Product(Tail(sets))}

\* The file name prompt left empty, answered with blanks only, or answered.
FilenameTyped == {<< <<>> >>, <<S("  ")>>, <<S(" my qr.png ")>>}

\* Lines 176-187: the keys of data_types.
data_types ==
    {S("1"), S("2"), S("3"), S("4"), S("5"), S("6"), S("7"), S("8"), S("9"),
     S("10"), S("11"), S("12")}

KindTyped ==
    Direct(data_types) \cup {<<S("0"), S(" 3 ")>>, <<S("13"), <<>>, S("x"), S("12")>>}

UrlTyped ==
    Product(<<Direct({S("https://example.org/a?b=1&c=2")}) \cup Retyped({S("http://x.y")}),
              FilenameTyped>>)

TextTyped ==
    Product(<<Direct({<<1055, 1088, 1080, 1074, 1077, 1090, 33>>}) \cup Retyped({S("a b")}),
              FilenameTyped>>)

WifiTyped ==
    Product(<<Direct({S("Home")}) \cup Retyped({S("Net;2")}),
              Optional({S("secret1"), S("p;w: 1")}),
              Direct(WifiModes) \cup {<<S("wpa"), <<>>, S(" WEP ")>>},
              {<< <<>> >>, <<S("y")>>, <<S(" Y ")>>, <<S("yes")>>},
              FilenameTyped>>)

EmailTyped ==
    Product(<<Direct({S("ann@example.org")}) \cup Retyped({S("b@c.d")}),
              Optional({S("Hi there"), S("a&b")}),
              Optional({S("See you & bye"), S("100%")}),
              FilenameTyped>>)

SmsTyped ==
    Product(<<Direct({S("+15551111")}) \cup Retyped({S("555 1111")}),
              Optional({S("On my way & back"), S("ok")}),
              FilenameTyped>>)

VcardTyped ==
    Product(<<Direct({S("Ann")}) \cup Retyped({<<1040, 1085, 1085, 1072>>}),
              Optional({S("Lee")}),
              Optional({S("Acme; Inc")}),
              Optional({S("CTO")}),
              Optional({S("555-1111")}),
              Optional({S("ann@example.org")}),
              Optional({S("https://example.org")}),
              FilenameTyped>>)

GeoTyped ==
    Product(<<Direct({S("55.7558")}) \cup Retyped({S("-33.86")}),
              Direct({S("37.6173")}) \cup Retyped({S("151.2")}),
              Optional({S("120")}),
              FilenameTyped>>)

PhoneTyped ==
    Product(<<Direct({S("+15551111")}) \cup Retyped({S("555 1111")}), FilenameTyped>>)

EventTyped ==
    Product(<<Direct({S("Launch")}) \cup Retyped({S("Q4 review")}),
              Optional({S("Room 1")}),
              Optional({S("Bring slides")}),
              Optional({S("20261103")}),
              Optional({S("20261104")}),
              FilenameTyped>>)

\* Paths that are on the disk, as images or not, and one that is not.
ImagePaths ==
    {S("pic.jpg"), S("img/logo.png"), S("pal.gif"), S("notes.txt"), S("docs"),
     S("secret.txt"), S("nope.png")}

ImageTyped ==
    Product(<<Direct(ImagePaths) \cup Retyped({S("pic.jpg"), S("gone/pic.jpg")}),
              FilenameTyped>>)

\* Passwords: plain, of blanks only, and one holding the lone surrogate
\* U+DCFF, which input and getpass return for the byte FF where the terminal
\* is read with surrogateescape, and which str.encode refuses.
PasswordLines ==
    {<<S("pw")>>, <<<<>>, <<1087, 1072, 1088, 1086, 1083, 1100>>>>, <<S("  ")>>,
     <<<<112, 56575>>>>}

EncryptedTyped ==
    Product(<<Direct({S("pic.jpg"), S("img/logo.png"), S("pal.gif"), S("nope.png")}),
              PasswordLines,
              PasswordLines,
              FilenameTyped>>)

TextPaths ==
    {S("notes.txt"), S("empty.txt"), S("bin.dat"), S("secret.txt"), S("docs"),
     S("pic.jpg"), S("nope.txt")}
    \cup {LongPath(n) : n \in 0..(MaxExtra + 1)}

FileTyped ==
    Product(<<Direct(TextPaths) \cup Retyped({S("notes.txt")}), FilenameTyped>>)

\* The settings: every colour choice with the medium size, and every size
\* choice and typed size with the classic colours.
SettingsTyped ==
    Product(<<Direct(ColorOptions) \cup {<<S("8"), S("2")>>},
              {<< <<>> >>, <<S("#ff0000")>>, <<S("navy")>>},
              {<< <<>> >>, <<S("#EEE")>>},
              {<<S("2")>>},
              {<< <<>> >>}>>)
    \cup Product(<<{<<S("1")>>},
                   {<< <<>> >>},
                   {<< <<>> >>},
                   Direct(SizeOptions) \cup {<<S("5"), S("3")>>},
                   {<< <<>> >>}
                   \cup Direct({S("6"), S("20"), S("21"), S("0"), S("-3"), S(" 7 "), S("1_0"),
                                S("abc"), S("12.5"), S("0x10")})>>)

ContinueOptions == {S("1"), S("2"), S("3")}

ContinueTyped == Direct(ContinueOptions) \cup {<<S("4"), <<>>, S("3")>>, <<S("q"), S("1")>>}

DecryptTyped ==
    Product(<<Direct({S("docs"), S("pic.jpg"), S("notes.txt"), S("nope.png")}),
              PasswordLines>>)

-----------------------------------------------------------------------------
(* main_menu of main2.py, lines 638-679, and main, lines 717-725 *)

\* The answer at lines 666-671 after a success.
continue_choice(lines) == get_user_choice(lines, ContinueOptions)

\* The locals of the iteration are not read again; what was typed last stays
\* on the screen.
ForgetLocals ==
    /\ m_choice' = <<>>
    /\ m_fields' = <<>>
    /\ m_data' = None
    /\ m_filename' = None
    /\ m_settings' = NoSettings
    /\ m_success' = FALSE
    /\ m_log' = <<>>
    /\ m_demo' = NoResult
    /\ UNCHANGED m_error
    /\ UNCHANGED <<codecVars, imageVars>>

Forget == m_typed' = <<>> /\ ForgetLocals

\* Lines 666-677: the choice made after a success, the locals forgotten.
Continues(choice) ==
    /\ m_pc = "generated"
    /\ m_success
    /\ \E lines \in ContinueTyped :
          \E asked \in {continue_choice(lines)} :
              /\ asked.returns
              /\ asked.value = choice
              /\ m_typed' = <<Take(lines, asked.rejected + 1)>>
    /\ ForgetLocals

\* The top of the loop, line 640.
LoopTop == m_pc' = "menu" /\ Forget

MenuInit ==
    /\ m_pc = "menu"
    /\ m_choice = <<>>
    /\ m_typed = <<>>
    /\ m_fields = <<>>
    /\ m_data = None
    /\ m_filename = None
    /\ m_settings = NoSettings
    /\ m_success = FALSE
    /\ m_log = <<>>
    /\ m_error = ""
    /\ m_demo = NoResult
    /\ CodecIdle
    /\ ImageIdle

\* Lines 176-187: the handler of each key of data_types.
handlers ==
    (S("1") :> "create_url_qr")
    @@ (S("2") :> "create_text_qr")
    @@ (S("3") :> "create_wifi_qr")
    @@ (S("4") :> "create_email_qr")
    @@ (S("5") :> "create_sms_qr")
    @@ (S("6") :> "create_vcard_qr")
    @@ (S("7") :> "create_geo_qr")
    @@ (S("8") :> "create_phone_qr")
    @@ (S("9") :> "create_event_qr")
    @@ (S("10") :> "create_image_qr")
    @@ (S("11") :> "create_encrypted_image_qr")
    @@ (S("12") :> "create_file_qr")

\* Line 652, self.data_types[choice]['handler']: the handler that is called,
\* none for a choice that is no key (the lookup raises KeyError).
handler_at(choice) == IF choice \in DOMAIN handlers THEN handlers[choice] ELSE "KeyError"

\* Lines 647-649: the kind is chosen.
Select ==
    /\ m_pc = "menu"
    /\ \E lines \in KindTyped :
          LET asked == get_user_choice(lines, data_types)
          IN  /\ asked.returns
              /\ m_choice' = asked.value
              /\ m_typed' = <<Take(lines, asked.rejected + 1)>>
    /\ m_log' = <<"select">>
    /\ m_pc' = "handler"
    /\ UNCHANGED <<m_fields, m_data, m_filename, m_settings, m_success, m_error, m_demo>>
    /\ UNCHANGED <<codecVars, imageVars>>

\* Line 652: the handler of the kind returned r.
Returned(r) ==
    /\ r.returns
    /\ m_typed' = r.typed
    /\ m_fields' = r.fields
    /\ m_data' = r.data
    /\ m_filename' = r.filename
    /\ m_log' = m_log \o r.log
    /\ m_pc' = "returned"
    /\ UNCHANGED <<m_choice, m_settings, m_success, m_error, m_demo>>
    /\ UNCHANGED <<codecVars, imageVars>>

HandleUrl ==
    /\ m_pc = "handler"
    /\ handler_at(m_choice) = "create_url_qr"
    /\ \E t \in UrlTyped : \E r \in {create_url_qr(t)} : Returned(r)

HandleText ==
    /\ m_pc = "handler"
    /\ handler_at(m_choice) = "create_text_qr"
    /\ \E t \in TextTyped : \E r \in {create_text_qr(t)} : Returned(r)

HandleWifi ==
    /\ m_pc = "handler"
    /\ handler_at(m_choice) = "create_wifi_qr"
    /\ \E t \in WifiTyped : \E r \in {create_wifi_qr(t)} : Returned(r)

HandleEmail ==
    /\ m_pc = "handler"
    /\ handler_at(m_choice) = "create_email_qr"
    /\ \E t \in EmailTyped : \E r \in {create_email_qr(t)} : Returned(r)

HandleSms ==
    /\ m_pc = "handler"
    /\ handler_at(m_choice) = "create_sms_qr"
    /\ \E t \in SmsTyped : \E r \in {create_sms_qr(t)} : Returned(r)

HandleVcard ==
    /\ m_pc = "handler"
    /\ handler_at(m_choice) = "create_vcard_qr"
    /\ \E t \in VcardTyped : \E r \in {create_vcard_qr(t)} : Returned(r)

HandleGeo ==
    /\ m_pc = "handler"
    /\ handler_at(m_choice) = "create_geo_qr"
    /\ \E t \in GeoTyped : \E r \in {create_geo_qr(t)} : Returned(r)

HandlePhone ==
    /\ m_pc = "handler"
    /\ handler_at(m_choice) = "create_phone_qr"
    /\ \E t \in PhoneTyped : \E r \in {create_phone_qr(t)} : Returned(r)

HandleEvent ==
    /\ m_pc = "handler"
    /\ handler_at(m_choice) = "create_event_qr"
    /\ \E t \in EventTyped : \E r \in {create_event_qr(t)} : Returned(r)

HandleImage ==
    /\ m_pc = "handler"
    /\ handler_at(m_choice) = "create_image_qr"
    /\ \E t \in ImageTyped, now \in Timestamps :
          \E r \in {create_image_qr(t, now)} : Returned(r)

HandleEncryptedImage ==
    /\ m_pc = "handler"
    /\ handler_at(m_choice) = "create_encrypted_image_qr"
    /\ \E t \in EncryptedTyped, iv \in IVs, now \in Timestamps :
          \E r \in {create_encrypted_image_qr(t, iv, now)} : Returned(r)

HandleFile ==
    /\ m_pc = "handler"
    /\ handler_at(m_choice) = "create_file_qr"
    /\ \E t \in FileTyped, now \in Timestamps :
          \E r \in {create_file_qr(t, now)} : Returned(r)

\* Lines 654-656: no payload; Enter, and the next iteration.
NoData ==
    /\ m_pc = "returned"
    /\ m_data = None
    /\ LoopTop

\* Line 659: get_qr_settings returns the settings.
Settings ==
    /\ m_pc = "returned"
    /\ m_data # None
    /\ \E t \in SettingsTyped :
          \E r \in {get_qr_settings(t)} :
              /\ r.returns
              /\ r.error = ""
              /\ m_settings' = r.settings
              /\ m_typed' = r.typed
    /\ m_fields' = <<>>
    /\ m_log' = Append(m_log, "settings")
    /\ m_pc' = "settings"
    /\ UNCHANGED <<m_choice, m_data, m_filename, m_success, m_error, m_demo>>
    /\ UNCHANGED <<codecVars, imageVars>>

\* Line 659, get_qr_settings raising: nothing in main_menu catches it, main
\* prints it at line 725 and the process ends.
SettingsRaise ==
    /\ m_pc = "returned"
    /\ m_data # None
    /\ \E t \in SettingsTyped :
          \E r \in {get_qr_settings(t)} :
              /\ r.returns
              /\ r.error # ""
              /\ m_error' = r.error
              /\ m_typed' = r.typed
    /\ m_fields' = <<>>
    /\ m_log' = Append(m_log, "settings")
    /\ m_pc' = "ended"
    /\ UNCHANGED <<m_choice, m_data, m_filename, m_settings, m_success, m_demo>>
    /\ UNCHANGED <<codecVars, imageVars>>

\* Line 662: generate_qr_code.
Generate ==
    /\ m_pc = "settings"
    /\ \E outcome \in RenderOutcomes(m_data, m_settings) :
          \E r \in {generate_qr_code(m_data, m_filename, m_settings, outcome)} :
              /\ m_success' = r.success
              /\ m_log' = m_log \o r.log
    /\ m_typed' = <<>>
    /\ m_pc' = "generated"
    /\ UNCHANGED <<m_choice, m_fields, m_data, m_filename, m_settings, m_error, m_demo>>
    /\ UNCHANGED <<codecVars, imageVars>>

\* Lines 665-671, choice '1': the next iteration.
Another ==
    /\ Continues(S("1"))
    /\ m_pc' = "menu"

\* Lines 673-674: choice '2', decrypt_menu is entered.
ToDecrypt ==
    /\ Continues(S("2"))
    /\ m_pc' = "decrypt"

\* Lines 675-677: choice '3', the loop is left and main returns.
Exit ==
    /\ Continues(S("3"))
    /\ m_pc' = "ended"

\* Lines 678-679 with a break in the else branch: a failed generation ends
\* the loop.
Failed_Breaks ==
    /\ m_pc = "generated"
    /\ ~m_success
    /\ m_pc' = "ended"
    /\ Forget

\* Lines 678-679: the generation failed; Enter, and the next iteration.
Failed ==
    /\ m_pc = "generated"
    /\ ~m_success
    /\ LoopTop

\* Line 674: decrypt_menu runs, up to its return or to its last prompt.
DecryptMenu ==
    /\ m_pc = "decrypt"
    /\ \E t \in DecryptTyped, iv \in IVs :
          \E r \in {decrypt_menu(t, iv)} :
              /\ r.returns
              /\ m_typed' = r.typed
              /\ m_fields' = r.fields
              /\ m_demo' = r.demo
              /\ m_log' = m_log \o r.log
    /\ m_pc' = "decrypted"
    /\ UNCHANGED <<m_choice, m_data, m_filename, m_settings, m_success, m_error>>
    /\ UNCHANGED <<codecVars, imageVars>>

\* decrypt_menu has returned: the next iteration.
AfterDecrypt ==
    /\ m_pc = "decrypted"
    /\ LoopTop

Next ==
    \/ Select
    \/ HandleUrl \/ HandleText \/ HandleWifi \/ HandleEmail \/ HandleSms \/ HandleVcard
    \/ HandleGeo \/ HandlePhone \/ HandleEvent
    \/ HandleImage \/ HandleEncryptedImage \/ HandleFile
    \/ NoData \/ Settings \/ SettingsRaise \/ Generate
    \/ Another \/ ToDecrypt \/ Exit \/ Failed
    \/ DecryptMenu \/ AfterDecrypt

Spec == MenuInit /\ [][Next]_vars

-----------------------------------------------------------------------------
(* Properties of the payloads of the kinds 3 and 6 *)

\* The prompts of a handler, in the sequence asked, that are required
\* (get_input's required=True); those of kind 11 after the first are read by
\* getpass.
RequiredPrompts(choice) ==
    IF choice = S("7") THEN {1, 2}
    ELSE IF choice = S("11") THEN {1, 2, 3}
    ELSE {1}

PasswordPrompts(choice) == IF choice = S("11") THEN {2, 3} ELSE {}

\* A field of a payload that is written only for a value that is not empty.
IfPresent(tag, value) == IF value = <<>> THEN <<>> ELSE tag \o value

\* C2: create_wifi_qr returns "WIFI:S:" + ssid + ";T:" + mode + ";", then
\* "P:" + password + ";" exactly when the password is not empty, then
\* "H:true;" exactly when hidden, then ";": the fields in the order S, T, P, H
\* and ";;" at the end; Home, secret1, WPA, not hidden give
\* "WIFI:S:Home;T:WPA;P:secret1;;".
C2_WifiPayload ==
    (m_pc = "returned" /\ m_choice = S("3")) =>
        LET ssid == m_fields[1]
            password == m_fields[2]
            mode == m_fields[3]
            hidden == m_fields[4] \in {S("y"), S("Y")}
        IN  /\ ssid # <<>>
            /\ mode \in {S("WPA"), S("WEP"), S("nopass")}
            /\ m_data = S("WIFI:S:") \o ssid \o S(";T:") \o mode \o S(";")
                        \o (IF password = <<>> THEN <<>> ELSE S("P:") \o password \o S(";"))
                        \o (IF hidden THEN S("H:true;") ELSE <<>>)
                        \o S(";")
            /\ Drop(m_data, Len(m_data) - 2) = S(";;")
            /\ (ssid = S("Home") /\ password = S("secret1") /\ mode = S("WPA") /\ ~hidden)
                   => m_data = S("WIFI:S:Home;T:WPA;P:secret1;;")

\* The network of the example was entered, and returned as the example says.
C2_Witness ==
    /\ m_pc = "returned"
    /\ m_choice = S("3")
    /\ m_fields[1] = S("Home")
    /\ m_fields[2] = S("secret1")
    /\ m_fields[3] = S("WPA")
    /\ m_fields[4] = S("n")
    /\ m_data = S("WIFI:S:Home;T:WPA;P:secret1;;")

\* C5: create_vcard_qr returns, joined by newlines, BEGIN:VCARD, VERSION:3.0,
\* N:<last>;<first>;;;, FN:<first> <last>, then the ORG, TITLE,
\* TEL;TYPE=WORK,VOICE, EMAIL;TYPE=WORK and URL lines in that order, each
\* present exactly when its field is not empty, then END:VCARD; Ann, Lee and
\* 555-1111 give the six lines of the example.
C5_VcardLines ==
    (m_pc = "returned" /\ m_choice = S("6")) =>
        LET first == m_fields[1]
            last == m_fields[2]
            optional == << <<S("ORG:"), m_fields[3]>>,
                           <<S("TITLE:"), m_fields[4]>>,
                           <<S("TEL;TYPE=WORK,VOICE:"), m_fields[5]>>,
                           <<S("EMAIL;TYPE=WORK:"), m_fields[6]>>,
                           <<S("URL:"), m_fields[7]>> >>
            present == {i \in 1..5 : optional[i][2] # <<>>}
            lines == S("BEGIN:VCARD") \o NL \o S("VERSION:3.0") \o NL
                     \o S("N:") \o last \o S(";") \o first \o S(";;;") \o NL
                     \o S("FN:") \o first \o S(" ") \o last \o NL
                     \o Concat([i \in 1..5 |->
                                   IF i \in present
                                   THEN optional[i][1] \o optional[i][2] \o NL
                                   ELSE <<>>])
                     \o S("END:VCARD")
        IN  /\ first # <<>>
            /\ m_data = lines
            /\ Cardinality({k \in 1..Len(m_data) : m_data[k] = 10}) = 4 + Cardinality(present)
            /\ (/\ first = S("Ann") /\ last = S("Lee") /\ m_fields[5] = S("555-1111")
                /\ present = {3})
                   => m_data = S("BEGIN:VCARD") \o NL \o S("VERSION:3.0") \o NL
                               \o S("N:Lee;Ann;;;") \o NL \o S("FN:Ann Lee") \o NL
                               \o S("TEL;TYPE=WORK,VOICE:555-1111") \o NL \o S("END:VCARD")

\* The card of the example was entered, and returned in six lines.
C5_Witness ==
    /\ m_pc = "returned"
    /\ m_choice = S("6")
    /\ m_fields[1] = S("Ann")
    /\ m_fields[2] = S("Lee")
    /\ m_fields[5] = S("555-1111")
    /\ \A i \in {3, 4, 6, 7} : m_fields[i] = <<>>
    /\ Cardinality({k \in 1..Len(m_data) : m_data[k] = 10}) = 5
    /\ SubSeq(m_data, 1, 11) = S("BEGIN:VCARD")

-----------------------------------------------------------------------------
(* Properties of the required prompts and of the errors of an iteration *)

\* Whether a line typed at a prompt holds nothing, blanks apart.
Blank(line) == Strip(line) = <<>>

C4_ErrorsReturnToMenu == m_pc = "ended" => m_error = ""

-----------------------------------------------------------------------------
(* Properties of the handlers that read a file *)

WorkSteps == {"recompress", "encrypt", "read", "wrap", "payload"}

\* C8: create_encrypted_image_qr returns no payload when the confirmation
\* differs from the password or the path does not exist, and has then not
\* read the image nor encrypted anything; create_image_qr and create_file_qr
\* return no payload and read nothing when the path does not exist; and
\* where no payload was returned no settings are asked and nothing is written.
C8_RefusedBeforeWork ==
    /\ (m_pc = "returned" /\ m_choice \in {S("10"), S("11"), S("12")}) =>
          ((\/ ~exists(m_fields[1])
            \/ m_choice = S("11") /\ m_fields[2] # m_fields[3])
              => /\ m_data = None
                 /\ m_filename = None
                 /\ \A k \in 1..Len(m_log) : m_log[k] \notin WorkSteps)
    /\ m_data = None =>
          \A k \in 1..Len(m_log) : m_log[k] \notin {"settings", "render", "write"}
    /\ (m_pc = "settings" \/ m_pc = "generated") => m_data # None

\* The confirmation differed from the password, the image being there.
C8_Witness ==
    /\ m_pc = "returned"
    /\ m_choice = S("11")
    /\ exists(m_fields[1])
    /\ m_fields[2] # m_fields[3]
    /\ m_data = None
    /\ m_log = <<"select", "fields">>

-----------------------------------------------------------------------------
(* Properties of the envelopes *)

\* The keys of a parsed object.
JsonKeys(obj) == {obj[i][1] : i \in 1..Len(obj)}

\* C12: every envelope create_image_qr, create_encrypted_image_qr and
\* create_file_qr return has a type among "image", "encrypted_image" and
\* "text_file", a data string and a timestamp; it has the key algorithm, with
\* the value "AES-256-CBC", exactly when its type is "encrypted_image", the
\* key format, with the value "jpeg", exactly when its type is "image", and
\* the key filename exactly when its type is "text_file".
C12_EnvelopeSchema ==
    (m_pc = "returned" /\ m_choice \in {S("10"), S("11"), S("12")} /\ m_data # None) =>
        \A envelope \in {json_loads(m_data)} :
            /\ envelope.ok
            /\ \A obj \in {envelope.value} : \A keys \in {JsonKeys(obj)} :
                  /\ Cardinality(keys) = Len(obj)
                  /\ {S("type"), S("data"), S("timestamp")} \subseteq keys
                  /\ keys \subseteq {S("type"), S("data"), S("timestamp"), S("algorithm"),
                                     S("format"), S("filename")}
                  /\ \A type \in {JsonGet(obj, S("type"))} :
                        /\ type = IF m_choice = S("10") THEN S("image")
                                  ELSE IF m_choice = S("11") THEN S("encrypted_image")
                                  ELSE S("text_file")
                        /\ S("algorithm") \in keys <=> type = S("encrypted_image")
                        /\ S("format") \in keys <=> type = S("image")
                        /\ S("filename") \in keys <=> type = S("text_file")
                  /\ S("algorithm") \in keys => JsonGet(obj, S("algorithm")) = S("AES-256-CBC")
                  /\ S("format") \in keys => JsonGet(obj, S("format")) = S("jpeg")
                  /\ JsonGet(obj, S("timestamp")) \in Timestamps

\* An encrypted image was wrapped, and its envelope names the algorithm.
C12_Witness ==
    /\ m_pc = "returned"
    /\ m_choice = S("11")
    /\ m_data # None
    /\ JsonGet(json_loads(m_data).value, S("algorithm")) = S("AES-256-CBC")
    /\ JsonGet(json_loads(m_data).value, S("type")) = S("encrypted_image")

-----------------------------------------------------------------------------
(* Properties of the mode of a WiFi payload *)

\* What a WiFi payload holds between the "T:" that follows the SSID and the
\* next ";".
WifiTField(payload, ssid) ==
    LET start == Len(S("WIFI:S:")) + Len(ssid) + Len(S(";T:")) + 1
        ends == {k \in start..Len(payload) : payload[k] = 59}
    IN  SubSeq(payload, start, (CHOOSE k \in ends : \A j \in ends : k <= j) - 1)

\* C13 as stated: the mode in the T field of every WiFi payload is one of
\* WPA, WEP and none.
C13_ModeAsStated ==
    (m_pc = "returned" /\ m_choice = S("3")) =>
        WifiTField(m_data, m_fields[1]) \in {S("WPA"), S("WEP"), S("none")}

\* C13 as amended: the mode in the T field of every WiFi payload is one of
\* WPA, WEP and nopass, the key chosen at the prompt, which refuses every line
\* that is none of the three.
C13_ModeIsAKey ==
    (m_pc = "returned" /\ m_choice = S("3")) =>
        /\ SubSeq(m_data, 1, Len(m_fields[1]) + 10) = S("WIFI:S:") \o m_fields[1] \o S(";T:")
        /\ WifiTField(m_data, m_fields[1]) \in {S("WPA"), S("WEP"), S("nopass")}
        /\ WifiTField(m_data, m_fields[1]) = Strip(m_typed[3][Len(m_typed[3])])
        /\ \A k \in 1..(Len(m_typed[3]) - 1) :
              Strip(m_typed[3][k]) \notin {S("WPA"), S("WEP"), S("nopass")}

\* A network without a password was entered, and its payload says T:nopass.
C13_Witness ==
    /\ m_pc = "returned"
    /\ m_choice = S("3")
    /\ m_fields[2] = <<>>
    /\ WifiTField(m_data, m_fields[1]) = S("nopass")

-----------------------------------------------------------------------------
(* Properties of the sms: and mailto: payloads *)

\* A value with %20 for every space and %26 for every ampersand.
PercentEscaped(value) ==
    Concat([i \in 1..Len(value) |->
               IF value[i] = 32 THEN <<37, 50, 48>>
               ELSE IF value[i] = 38 THEN <<37, 50, 54>>
               ELSE <<value[i]>>])

\* How often a character occurs in a text.
Count(c, text) == Cardinality({k \in 1..Len(text) : text[k] = c})

\* C14: create_sms_qr returns "sms:" + number, then "?body=" + the escaped
\* message exactly when the message is not empty; create_email_qr returns
\* "mailto:" + address, then "?" and those of subject=<escaped subject> and
\* body=<escaped body> that are not empty, in that order with one "&" between
\* them, exactly when one of them is not empty; an escaped value has %20 for
\* every space, %26 for every ampersand, every other character unchanged, so
\* the only "&" of a query is the one between subject and body.
C14_SmsAndMailto ==
    /\ (m_pc = "returned" /\ m_choice = S("5")) =>
          \A number \in {m_fields[1]}, message \in {m_fields[2]} :
              \A escaped \in {PercentEscaped(message)} :
                  /\ m_data = S("sms:") \o number
                              \o (IF message = <<>> THEN <<>> ELSE S("?body=") \o escaped)
                  /\ Count(32, escaped) = 0 /\ Count(38, escaped) = 0
                  /\ Len(escaped) = Len(message) + 2 * (Count(32, message) + Count(38, message))
                  /\ Len(m_data) = 4 + Len(number) <=> message = <<>>
    /\ (m_pc = "returned" /\ m_choice = S("4")) =>
          \A address \in {m_fields[1]}, subject \in {PercentEscaped(m_fields[2])},
             body \in {PercentEscaped(m_fields[3])} :
              \A query \in {Drop(m_data, Len(S("mailto:")) + Len(address))} :
                  /\ m_data = S("mailto:") \o address \o query
                  /\ query = IF subject = <<>> /\ body = <<>> THEN <<>>
                             ELSE IF body = <<>> THEN S("?subject=") \o subject
                             ELSE IF subject = <<>> THEN S("?body=") \o body
                             ELSE S("?subject=") \o subject \o S("&body=") \o body
                  /\ Count(32, query) = 0
                  /\ Count(38, query) = IF subject # <<>> /\ body # <<>> THEN 1 ELSE 0
                  /\ subject = <<>> <=> m_fields[2] = <<>>
                  /\ body = <<>> <=> m_fields[3] = <<>>

\* A subject and a body that hold spaces and ampersands were escaped.
C14_Witness ==
    /\ m_pc = "returned"
    /\ m_choice = S("4")
    /\ m_fields[2] = S("a&b")
    /\ m_fields[3] = S("See you & bye")
    /\ m_data = S("mailto:") \o m_fields[1]
                \o S("?subject=a%26b&body=See%20you%20%26%20bye")

-----------------------------------------------------------------------------
(* Properties of the image that is encoded *)

\* C15: whatever the colour mode of the source image, the image that
\* image_to_base64 hands to the JPEG encoder is an opaque RGB image, and where
\* the source had an alpha channel it was composited over white through it.
C15_OpaqueRgbBeforeEncoding ==
    Len(i_saves) > 0 =>
        /\ i_img.mode = "RGB"
        /\ i_img.flattened \in {"no", "over_white"}

-----------------------------------------------------------------------------
(* Properties of the order of the steps of an iteration *)

\* The place of a step in an iteration: the kind is selected, the handler
\* asks its fields, tests the path, reads or recompresses, encrypts, builds or
\* wraps the payload and asks the file name; then the settings are asked, the
\* code is rendered and the file is written.
StepRank(step) ==
    CASE step = "select" -> 1
      [] step = "fields" -> 2
      [] step = "exists" -> 3
      [] step \in {"recompress", "read"} -> 4
      [] step = "encrypt" -> 5
      [] step \in {"payload", "wrap"} -> 6
      [] step = "filename" -> 7
      [] step = "settings" -> 8
      [] step = "render" -> 9
      [] step = "write" -> 10
      [] OTHER -> 11

\* The steps of an iteration done so far, none when decrypt_menu runs.
IterationSteps == IF m_log # <<>> /\ m_log[1] = "select" THEN m_log ELSE <<>>

\* C16: in every iteration the steps happen in the order selection, the
\* handler's prompts and payload (for an encrypted image: recompression, then
\* encryption, then wrapping), settings, rendering, writing; the file is
\* written at most once, by generate_qr_code only, with a payload that is
\* not None, after the handler and get_qr_settings have completed; no
\* handler writes a file.
C16_StepOrder ==
    /\ \A k \in 2..Len(IterationSteps) :
          StepRank(IterationSteps[k - 1]) < StepRank(IterationSteps[k])
    /\ m_pc \in {"handler", "returned", "settings", "generated"} => IterationSteps # <<>>
    /\ Cardinality({k \in 1..Len(m_log) : m_log[k] = "write"}) <= 1
    /\ \A k \in 1..Len(m_log) :
          m_log[k] \in {"render", "write"} =>
              /\ m_pc = "generated"
              /\ m_data # None
              /\ m_settings # NoSettings
              /\ k >= 2 /\ m_log[k - 1] = (IF m_log[k] = "write" THEN "render" ELSE "settings")
              /\ \E j \in 1..(k - 1) : m_log[j] = "filename"
    /\ m_pc = "settings" => m_log[Len(m_log)] = "settings"
    /\ (m_pc = "returned" /\ m_choice = S("11") /\ m_data # None) =>
          m_log = <<"select", "fields", "exists", "recompress", "encrypt", "wrap", "filename">>

\* An encrypted image went through every step, and the file was written.
C16_Witness ==
    /\ m_pc = "generated"
    /\ m_success
    /\ m_choice = S("11")
    /\ m_log = <<"select", "fields", "exists", "recompress", "encrypt", "wrap", "filename",
                 "settings", "render", "write">>

-----------------------------------------------------------------------------
(* Properties of the attempts of the recompression loop *)

\* What holds of the attempts made so far: at most six, each at a quality
\* among 85, 70, 55, 40, 25 and 10, each 15 below the one before, and once
\* the call has returned the bytes kept are those of the last attempt.
AttemptsBounded ==
    /\ Len(i_saves) <= 6
    /\ \A k \in 1..Len(i_saves) :
          /\ i_saves[k] \in {85, 70, 55, 40, 25, 10}
          /\ i_saves[k] = 85 - 15 * (k - 1)
    /\ i_pc \in {"save", "test", "returned"} => i_quality >= 10
    /\ i_pc = "returned" =>
          /\ i_saves # <<>>
          /\ i_quality = i_saves[Len(i_saves)]
          /\ i_bytes = (i_img.weight * (i_saves[Len(i_saves)] + 15)) \div 100

\* C17: the recompression loop of image_to_base64 ends for every image and
\* every max_size_kb, after at most 6 attempts, each at a quality among 85,
\* 70, 55, 40, 25 and 10 and none below 10; the bytes returned are those of
\* the last attempt.
C17_LoopTerminates == []AttemptsBounded /\ <>(i_pc \in {"returned", "raised"})

\* An image too heavy at every quality was tried six times and returned at
\* quality 10, still above the target.
C17_Witness ==
    /\ i_pc = "returned"
    /\ i_saves = <<85, 70, 55, 40, 25, 10>>
    /\ i_quality = 10
    /\ i_size_kb > i_max

-----------------------------------------------------------------------------
(* Properties of the module size *)

\* C18: the box_size get_qr_settings returns, and generate_qr_code is called
\* with, is 8, 12 or 16 for a preset and within 6..20 for the custom choice.
C18_BoxSizeInRange ==
    m_pc \in {"settings", "generated"} => m_settings.box_size \in 6..20

-----------------------------------------------------------------------------
(* Properties of the loop of main_menu *)

\* The last line typed at the last prompt.
LastTyped(typed) == Strip(typed[Len(typed)][Len(typed[Len(typed)])])

\* What one step of the loop may do: the loop is left without an exception
\* only from a successful generation where exit was chosen; a handler without
\* a payload and a failed generation lead to the kind selection; the choice
\* to decrypt leads to decrypt_menu, and decrypt_menu to the kind selection.
LoopStep ==
    /\ (m_pc' = "ended" /\ m_pc # "ended" /\ m_error' = "") =>
          /\ m_pc = "generated" /\ m_success
          /\ LastTyped(m_typed') = S("3")
    /\ (m_pc = "returned" /\ m_data = None) => m_pc' = "menu"
    /\ (m_pc = "generated" /\ ~m_success) => m_pc' = "menu"
    /\ (m_pc = "generated" /\ m_success) =>
          /\ m_pc' \in {"menu", "decrypt", "ended"}
          /\ m_pc' = "menu" <=> LastTyped(m_typed') = S("1")
          /\ m_pc' = "decrypt" <=> LastTyped(m_typed') = S("2")
          /\ m_pc' = "ended" <=> LastTyped(m_typed') = S("3")
    /\ m_pc' = "decrypt" => (m_pc = "generated" /\ m_success)
    /\ m_pc = "decrypt" => m_pc' = "decrypted"
    /\ m_pc = "decrypted" => m_pc' = "menu"
    /\ m_pc' = "menu" => m_choice' = <<>> /\ m_data' = None

\* C19: the loop of main_menu ends normally only through the exit choice '3',
\* offered only directly after a successful generation; after a handler that
\* returned no payload and after a failed generation the loop goes back to
\* the kind selection without offering the exit; after the choice '2'
\* decrypt_menu runs and the loop continues with the kind selection.
C19_ExitOnlyByChoice == [][LoopStep]_vars

\* The user left after the prompt had refused two lines.
C19_Witness ==
    /\ m_pc = "ended"
    /\ m_error = ""
    /\ m_typed = << <<S("4"), <<>>, S("3")>> >>

-----------------------------------------------------------------------------
(* Properties of decrypt_menu *)

\* decrypt_menu has returned after it found the file and read a password.
DemoRan == m_pc = "decrypted" /\ Len(m_fields) = 2 /\ exists(m_fields[1])

\* C20 as stated: whatever the existing file and whatever the non-empty
\* password, decrypt_menu reports the fixed demonstration text as decrypted
\* and reports success; the file is tested for existence and never read.
C20_SameOutcomeAsStated ==
    (DemoRan /\ m_fields[2] # <<>>) =>
        /\ m_demo.ok
        /\ m_demo.value = test_data
        /\ m_log = <<"decrypt_menu", "exists", "demo", "enter">>

\* C20 as amended: whatever the existing file and whatever the non-empty
\* password that UTF-8 can encode, decrypt_menu reports the fixed
\* demonstration text as decrypted and reports success; a password that
\* cannot be encoded gives the error message instead; the file, or directory,
\* is tested for existence and never read, and without it nothing is run.
C20_SameOutcome ==
    m_pc = "decrypted" =>
        /\ \A k \in 1..Len(m_log) : m_log[k] \notin {"read", "recompress", "write"}
        /\ DemoRan =>
              /\ m_fields[2] # <<>>
              /\ m_log = <<"decrypt_menu", "exists", "demo", "enter">>
              /\ m_demo.ok <=> Utf8Encodable(m_fields[2])
              /\ m_demo.ok => m_demo.value = test_data
              /\ m_demo.value \in {test_data, <<>>}
        /\ ~DemoRan =>
              /\ Len(m_fields) = 1 /\ ~exists(m_fields[1])
              /\ m_demo = NoResult
              /\ m_log = <<"decrypt_menu", "exists">>

\* A directory was named and a password of two blanks typed: the
\* demonstration text was reported.
C20_Witness ==
    /\ m_pc = "decrypted"
    /\ m_fields = <<S("docs"), S("  ")>>
    /\ m_demo.ok
    /\ m_demo.value = test_data

-----------------------------------------------------------------------------
(* Properties of the file name a handler returns *)

\* The default of the file name prompt of each kind (lines 240, 250, 275,
\* 298, 314, 354, 371, 383, 416, 444, 485, 524).
DefaultName(choice) ==
    CASE choice = S("1") -> S("url_qr.png")
      [] choice = S("2") -> S("text_qr.png")
      [] choice = S("3") -> S("wifi_qr.png")
      [] choice = S("4") -> S("email_qr.png")
      [] choice = S("5") -> S("sms_qr.png")
      [] choice = S("6") -> S("contact_qr.png")
      [] choice = S("7") -> S("geo_qr.png")
      [] choice = S("8") -> S("phone_qr.png")
      [] choice = S("9") -> S("event_qr.png")
      [] choice = S("10") -> S("image_qr.png")
      [] choice = S("11") -> S("encrypted_image_qr.png")
      [] choice = S("12") -> S("file_qr.png")

\* C21: a handler that returns a payload returns a file name that is not
\* empty: the default of its kind when the line typed at the file name
\* prompt holds nothing, the stripped line otherwise; so from the return of
\* the handler to the call of generate_qr_code and after it the file name of
\* the iteration is a text that is not empty.
C21_FilenameNotEmpty ==
    (m_pc \in {"returned", "settings", "generated"} /\ m_data # None) =>
        /\ m_filename # None
        /\ m_filename # <<>>
        /\ m_pc = "returned" =>
              \A line \in {LastTyped(m_typed)} :
                  m_filename = IF line = <<>> THEN DefaultName(m_choice) ELSE line

\* generate_qr_code was called with the default of kind 3 after a file name
\* prompt left empty.
C21_Witness ==
    /\ m_pc = "generated"
    /\ m_choice = S("3")
    /\ m_filename = S("wifi_qr.png")
-----------------------------------------------------------------------------
(* Properties of get_user_choice and of the dispatch on its result *)

\* main.py, lines 69-79: the keys of its data_types, whose handlers are the
\* first nine of main2.py.
main_data_types ==
    {S("1"), S("2"), S("3"), S("4"), S("5"), S("6"), S("7"), S("8"), S("9")}

\* The number of prompts a handler answers before it returns a payload.
PromptCount(choice) ==
    CASE choice \in {S("1"), S("2"), S("8"), S("10"), S("12")} -> 2
      [] choice = S("5") -> 3
      [] choice \in {S("4"), S("7"), S("11")} -> 4
      [] choice = S("3") -> 5
      [] choice = S("9") -> 6
      [] choice = S("6") -> 8

\* How the payload of a kind begins; the kinds 1 and 2 return the text typed.
PayloadHead(choice, fields) ==
    CASE choice \in {S("1"), S("2")} -> fields[1]
      [] choice = S("3") -> S("WIFI:S:")
      [] choice = S("4") -> S("mailto:")
      [] choice = S("5") -> S("sms:")
      [] choice = S("6") -> S("BEGIN:VCARD")
      [] choice = S("7") -> S("geo:")
      [] choice = S("8") -> S("tel:")
      [] choice = S("9") -> S("BEGIN:VEVENT")
      [] choice = S("10") -> S("{\"type\": \"image\",")
      [] choice = S("11") -> S("{\"type\": \"encrypted_image\",")
      [] choice = S("12") -> S("{\"type\": \"text_file\",")

\* The lines of one prompt before the last were refused: none is a key.
OthersRefused(lines, options) ==
    \A i \in 1..(Len(lines) - 1) : Strip(lines[i]) \notin options

\* C22: get_user_choice returns the last line typed, stripped, which is a
\* key of its options, every line before it being none; so the choice of
\* the kind is a key of data_types (of the nine keys of main.py there), no
\* lookup of a handler or of a preset raises KeyError, and the handler that
\* ran is the one of the kind chosen: it asked that handler's prompts, its
\* payload begins as that kind's does and its default file name is that
\* kind's.
C22_ChoiceIsAKey ==
    /\ m_pc = "handler" =>
          /\ m_choice \in DOMAIN handlers
          /\ m_choice = LastTyped(m_typed)
          /\ OthersRefused(m_typed[1], DOMAIN handlers)
    /\ m_pc \in {"handler", "returned", "settings", "generated"} =>
          handler_at(m_choice) # "KeyError"
    /\ m_error # "KeyError"
    /\ (m_pc = "returned" /\ m_data # None) =>
          /\ Len(m_fields) = PromptCount(m_choice)
          /\ \A head \in {PayloadHead(m_choice, m_fields)} :
                Take(m_data, Len(head)) = head
          /\ LastTyped(m_typed) = <<>> => m_filename = DefaultName(m_choice)
    /\ \A lines \in KindTyped :
          \A asked \in {get_user_choice(lines, main_data_types)} :
              asked.returns =>
                  /\ asked.value \in main_data_types
                  /\ asked.value = Strip(lines[asked.rejected + 1])
                  /\ OthersRefused(Take(lines, asked.rejected + 1), main_data_types)

\* "0" was refused and " 3 " accepted at the kind selection: the choice is
\* "3" and the handler of kind 3 is about to be called.
C22_Witness ==
    /\ m_pc = "handler"
    /\ m_choice = S("3")
    /\ m_typed = << <<S("0"), S(" 3 ")>> >>
    /\ handler_at(m_choice) = "create_wifi_qr"
=============================================================================
